---- MODULE Spec2Model ----
(***************************************************************************)
(* FIFO lot-based holdings replay of the stock application.                *)
(*                                                                         *)
(* The stored transaction and bonus records of one (client, security) are  *)
(* presented in the chronological order the handlers' sorts produce, and   *)
(* every record is fed through one iteration of the replay loop of each    *)
(* handler: getStockTransactionHistory, getHoldingsSummary, fifoProcess    *)
(* (called by getWeightedAverageCost), exportClientTransactionsToExcel and *)
(* the StockDetailModal of the front end.                                  *)
(*                                                                         *)
(* Type codes are sequences of one-character strings, so that toUpperCase, *)
(* trim, startsWith and includes are computed as the code computes them.   *)
(* Prices and amounts are exact rationals <<numerator, denominator>>.      *)
(***************************************************************************)
EXTENDS Integers, Sequences, FiniteSets, TLC

VARIABLES
    endDate,    \* the as-of date of the request (NoDate when none is given)
    clock,      \* effective date of the last record replayed
    lastKind,   \* "none", "transaction" or "bonus": kind of the last record
    nEvents,    \* number of records replayed so far
    hist,       \* loop state of getStockTransactionHistory
    summ,       \* loop state of getHoldingsSummary (one security group)
    fifo,       \* loop state of fifoProcess
    xport,      \* loop state of exportClientTransactionsToExcel
    modal,      \* totals and lot queue of StockDetailModal
    last,       \* the last record replayed
    prev,       \* the loop states before the last record
    seen,       \* what the history's sequence held so far, in the stated categories
    order,      \* the sorts of the handlers over one supplied list of records
    pricing,    \* the price resolution of one stored row
    names,      \* name matching and grouping over stored names
    fetch       \* the paginated fetch of getHoldingsSummary

ledgerVars ==
    <<endDate, clock, lastKind, nEvents, hist, summ, fifo, xport, modal, last, prev, seen>>

vars == <<endDate, clock, lastKind, nEvents, hist, summ, fifo, xport, modal, last, prev,
          seen, order, pricing, names, fetch>>

\* the value of a variable a specification does not use
Unused == [phase |-> "unused"]

(***************************************************************************)
(* Bounds of the model.                                                    *)
(***************************************************************************)
MaxEvents == 3
MaxQty == 2
MaxDate == 2
MaxRows == 2

\* "no date": an absent endDate, an absent ExDate
NoDate == 0
\* the effective date given to a bonus without ExDate ('1900-01-01'),
\* earlier than every transaction date
SentinelDate == 0

(***************************************************************************)
(* JavaScript numbers: exact rationals.                                    *)
(***************************************************************************)
Abs(x) == IF x < 0 THEN -x ELSE x

Min(a, b) == IF a < b THEN a ELSE b

RECURSIVE GCD(_, _)
GCD(a, b) == IF b = 0 THEN a ELSE GCD(b, a % b)

Rat(n, d) ==
    LET g == GCD(Abs(n), Abs(d))
        s == IF d < 0 THEN -1 ELSE 1
    IN  <<(s * n) \div g, (s * d) \div g>>

Num(n) == <<n, 1>>

RatAdd(x, y) == Rat(x[1] * y[2] + y[1] * x[2], x[2] * y[2])

RatSub(x, y) == Rat(x[1] * y[2] - y[1] * x[2], x[2] * y[2])

RatMul(x, y) == Rat(x[1] * y[1], x[2] * y[2])

RatDiv(x, y) == Rat(x[1] * y[2], x[2] * y[1])

RatPos(x) == x[1] > 0

RatZero(x) == x[1] = 0

RatAbs(x) == <<Abs(x[1]), x[2]>>

(***************************************************************************)
(* JavaScript strings: sequences of characters.                            *)
(***************************************************************************)
Lower == <<"a", "b", "c", "d", "e", "f", "g", "h", "i", "j", "k", "l", "m",
           "n", "o", "p", "q", "r", "s", "t", "u", "v", "w", "x", "y", "z">>

Upper == <<"A", "B", "C", "D", "E", "F", "G", "H", "I", "J", "K", "L", "M",
           "N", "O", "P", "Q", "R", "S", "T", "U", "V", "W", "X", "Y", "Z">>

toUpperCase(s) ==
    [i \in 1..Len(s) |->
        IF \E k \in 1..26 : Lower[k] = s[i]
        THEN Upper[CHOOSE k \in 1..26 : Lower[k] = s[i]]
        ELSE s[i]]

RECURSIVE trimStart(_)
trimStart(s) ==
    IF s # <<>> /\ Head(s) = " " THEN trimStart(Tail(s)) ELSE s

RECURSIVE trimEnd(_)
trimEnd(s) ==
    IF s # <<>> /\ s[Len(s)] = " " THEN trimEnd(SubSeq(s, 1, Len(s) - 1)) ELSE s

trim(s) == trimEnd(trimStart(s))

startsWith(s, p) == Len(p) <= Len(s) /\ SubSeq(s, 1, Len(p)) = p

includes(s, p) ==
    \E i \in 1..(Len(s) - Len(p) + 1) : SubSeq(s, i, i + Len(p) - 1) = p

\* the literals the classifiers compare with
S_B == <<"B">>
S_S == <<"S">>
S_BUY == <<"B", "U", "Y">>
S_PURCHASE == <<"P", "U", "R", "C", "H", "A", "S", "E">>
S_SELL == <<"S", "E", "L", "L">>
S_SALE == <<"S", "A", "L", "E">>
S_SQB == <<"S", "Q", "B">>
S_SQS == <<"S", "Q", "S">>
S_OPI == <<"O", "P", "I">>
S_OPO == <<"O", "P", "O">>
S_NF == <<"N", "F", "-">>
S_DIO == <<"D", "I", "O">>
S_DIVIDEND == <<"D", "I", "V", "I", "D", "E", "N", "D">>
S_REINVEST == <<" ", "R", "E", "I", "N", "V", "E", "S", "T">>
S_MENT == <<"M", "E", "N", "T">>
S_RECEIVED == <<" ", "R", "E", "C", "E", "I", "V", "E", "D">>
S_BONUS == <<"B", "O", "N", "U", "S">>

\* the dividend test every classifier repeats
isDividendType(type) ==
    \/ type = S_DIO
    \/ type = S_DIVIDEND
    \/ type = S_DIVIDEND \o S_REINVEST
    \/ type = S_DIVIDEND \o S_REINVEST \o S_MENT
    \/ type = S_DIVIDEND \o S_RECEIVED
    \/ startsWith(type, S_DIVIDEND)
    \/ includes(type, S_DIVIDEND)

(***************************************************************************)
(* Lot queues.                                                             *)
(***************************************************************************)
RECURSIVE SumQty(_)
SumQty(q) == IF q = <<>> THEN 0 ELSE Head(q).qty + SumQty(Tail(q))

RECURSIVE SumCost(_)
SumCost(q) ==
    IF q = <<>> THEN Num(0)
    ELSE RatAdd(RatMul(Num(Head(q).qty), Head(q).price), SumCost(Tail(q)))

Lot(qty, price) == [qty |-> qty, price |-> price]

(***************************************************************************)
(* getStockTransactionHistory: the replay of one security.                 *)
(* hist = [buyQueue, currentHoldings, rows, row]: the FIFO queue, the      *)
(* running holding, the number of rows pushed to mergedTransactions and    *)
(* the last row pushed.                                                    *)
(***************************************************************************)
NoRow ==
    [kind |-> "none", qty |-> 0, hasProfitLoss |-> FALSE, profitLoss |-> Num(0),
     averageCostOfHoldings |-> Num(0), holdingsBefore |-> 0, holdingsAfter |-> 0]

HistInit == [buyQueue |-> <<>>, currentHoldings |-> 0, rows |-> 0, row |-> NoRow]

\* the SQL filter TRANDATE <= endDate of the transaction fetch
histFetches(t) == endDate = NoDate \/ t.trandate <= endDate

isBuyTransaction(tranType) ==
    IF tranType = <<>> THEN FALSE
    ELSE LET type == trim(toUpperCase(tranType))
             isBuy == \/ startsWith(type, S_B)
                      \/ type = S_BUY
                      \/ type = S_PURCHASE
                      \/ includes(type, S_BUY)
             isSQB == type = S_SQB
             isOPI == type = S_OPI
         IN  (isBuy \/ isSQB \/ isOPI) /\ ~isDividendType(type)

isSellTransaction(tranType) ==
    IF tranType = <<>> THEN FALSE
    ELSE LET type == trim(toUpperCase(tranType))
             isSell == \/ startsWith(type, S_S)
                       \/ type = S_SELL
                       \/ type = S_SALE
                       \/ includes(type, S_SELL)
             isSQS == type = S_SQS
             isOPO == type = S_OPO
             isNF == type = S_NF \/ startsWith(type, S_NF)
         IN  isSell \/ isSQS \/ isOPO \/ isNF

\* price: netrate, else rate, else |netAmount| / qty
histPrice(t) ==
    LET qty == Abs(t.qty)
        p1 == IF t.netrate # 0 THEN t.netrate ELSE 0
        p2 == IF p1 = 0 THEN t.rate ELSE p1
    IN  IF p2 = 0 /\ qty > 0 /\ t.netAmount # 0
        THEN Rat(Abs(t.netAmount), qty)
        ELSE Num(p2)

\* while (remainingSellQty > 0 && buyQueue.length > 0)
RECURSIVE histConsume(_, _, _)
histConsume(queue, remainingSellQty, sellCostBasis) ==
    IF remainingSellQty > 0 /\ queue # <<>>
    THEN LET oldestLot == Head(queue)
         IN  IF oldestLot.qty <= remainingSellQty
             THEN histConsume(Tail(queue), remainingSellQty - oldestLot.qty,
                      RatAdd(sellCostBasis, RatMul(Num(oldestLot.qty), oldestLot.price)))
             ELSE histConsume(
                      <<Lot(oldestLot.qty - remainingSellQty, oldestLot.price)>> \o Tail(queue),
                      0,
                      RatAdd(sellCostBasis, RatMul(Num(remainingSellQty), oldestLot.price)))
    ELSE [queue |-> queue, remaining |-> remainingSellQty, cost |-> sellCostBasis]

\* Average Cost of Holdings = WAP x HOLDING
histAverageCost(currentHoldings, buyQueue) ==
    IF currentHoldings > 0
    THEN LET totalCostBasis == SumCost(buyQueue)
             holdingAfter == SumQty(buyQueue)
             wap == IF holdingAfter > 0 THEN RatDiv(totalCostBasis, Num(holdingAfter))
                    ELSE Num(0)
         IN  RatMul(Num(currentHoldings), wap)
    ELSE Num(0)

\* one iteration of the loop for an event of type 'transaction'
histTransaction(st, t) ==
    LET qty == Abs(t.qty)
        price == histPrice(t)
        isBuy == isBuyTransaction(t.tranType)
        isSell == isSellTransaction(t.tranType)
        priced == qty > 0 /\ RatPos(price)
        c == histConsume(st.buyQueue, qty, Num(0))
        buyQueue == IF isBuy
                    THEN IF priced THEN Append(st.buyQueue, Lot(qty, price))
                         ELSE st.buyQueue
                    ELSE IF isSell /\ priced THEN c.queue ELSE st.buyQueue
        currentHoldings == IF isBuy
                           THEN IF priced THEN st.currentHoldings + qty
                                ELSE st.currentHoldings
                           ELSE IF isSell THEN st.currentHoldings - qty
                                ELSE st.currentHoldings
        hasProfitLoss == ~isBuy /\ isSell /\ priced
        profitLoss == IF hasProfitLoss
                      THEN RatSub(RatMul(Num(qty), price), c.cost)
                      ELSE Num(0)
    IN  [buyQueue |-> buyQueue,
         currentHoldings |-> currentHoldings,
         rows |-> st.rows + 1,
         row |-> [kind |-> "transaction", qty |-> t.qty,
                  hasProfitLoss |-> hasProfitLoss, profitLoss |-> profitLoss,
                  averageCostOfHoldings |-> histAverageCost(currentHoldings, buyQueue),
                  holdingsBefore |-> st.currentHoldings,
                  holdingsAfter |-> currentHoldings]]

\* a variant of the bonus branch that pushes no row for a bonus without
\* shares; the one-row-per-event property tells it from histBonus
histBonusSkipsEmpty(st, b) ==
    IF b.bonusShare > 0
    THEN [st EXCEPT !.buyQueue = Append(@, Lot(b.bonusShare, Num(0))),
                    !.currentHoldings = @ + b.bonusShare,
                    !.rows = @ + 1,
                    !.row = [kind |-> "bonus", qty |-> b.bonusShare,
                             hasProfitLoss |-> FALSE, profitLoss |-> Num(0),
                             averageCostOfHoldings |->
                                 histAverageCost(st.currentHoldings + b.bonusShare,
                                     Append(st.buyQueue, Lot(b.bonusShare, Num(0)))),
                             holdingsBefore |-> st.currentHoldings,
                             holdingsAfter |-> st.currentHoldings + b.bonusShare]]
    ELSE st

\* one iteration of the loop for an event of type 'bonus'
histBonus(st, b) ==
    LET validBonusShare == IF b.bonusShare >= 0 THEN b.bonusShare ELSE 0
        bonusSharesReceived == validBonusShare
        currentHoldings == st.currentHoldings + bonusSharesReceived
        buyQueue == IF bonusSharesReceived > 0
                    THEN Append(st.buyQueue, Lot(bonusSharesReceived, Num(0)))
                    ELSE st.buyQueue
    IN  [buyQueue |-> buyQueue,
         currentHoldings |-> currentHoldings,
         rows |-> st.rows + 1,
         row |-> [kind |-> "bonus", qty |-> bonusSharesReceived,
                  hasProfitLoss |-> FALSE, profitLoss |-> Num(0),
                  averageCostOfHoldings |-> histAverageCost(currentHoldings, buyQueue),
                  holdingsBefore |-> st.currentHoldings,
                  holdingsAfter |-> currentHoldings]]

\* the effective date the merge gives a bonus
bonusEffectiveDate(b) == IF b.exDate # NoDate THEN b.exDate ELSE SentinelDate

(***************************************************************************)
(* getHoldingsSummary: the replay of one security group.                   *)
(* summ = [lotQueue, transactions]: the FIFO queue and the number of rows  *)
(* of the group (byStock[key].length; the response has an entry for the    *)
(* security only when it is not 0).                                        *)
(***************************************************************************)
SummInit == [lotQueue |-> <<>>, transactions |-> 0]

\* the SQL filter TRANDATE <= endDate of the transaction fetch
sumFetches(t) == endDate = NoDate \/ t.trandate <= endDate

\* the bonus index keeps a bonus of the client unless it is after endDate or
\* its BonusShare is 0
sumBonusIndexed(b) ==
    /\ ~(endDate # NoDate /\ b.exDate # NoDate /\ b.exDate > endDate)
    /\ b.bonusShare # 0

\* combinedEvents leaves out every dividend type
sumIsDividend(tranType) == isDividendType(trim(toUpperCase(tranType)))

sumPrice(e, qty) ==
    LET netrate == e.netrate
        price == IF netrate > 0 THEN netrate ELSE e.rate
    IN  IF price = 0 /\ e.netAmount # 0 /\ Abs(e.netAmount) > 0
        THEN Rat(Abs(e.netAmount), qty)
        ELSE Num(price)

RECURSIVE sumConsume(_, _)
sumConsume(lotQueue, remaining) ==
    IF remaining > 0 /\ lotQueue # <<>>
    THEN LET lot == Head(lotQueue)
         IN  IF lot.qty <= remaining
             THEN sumConsume(Tail(lotQueue), remaining - lot.qty)
             ELSE sumConsume(<<Lot(lot.qty - remaining, lot.price)>> \o Tail(lotQueue), 0)
    ELSE lotQueue

\* combinedEvents.forEach: e = [tranType, qty, netAmount, rate, netrate, isBonus]
sumEvent(st, e) ==
    LET tranType == e.tranType
        isBuy == \/ startsWith(tranType, S_B)
                 \/ tranType = S_BUY
                 \/ tranType = S_PURCHASE
                 \/ includes(tranType, S_BUY)
        isSell == \/ startsWith(tranType, S_S)
                  \/ tranType = S_SELL
                  \/ tranType = S_SALE
                  \/ includes(tranType, S_SELL)
        isBonus == tranType = S_BONUS \/ e.isBonus
        isSQB == tranType = S_SQB
        isSQS == tranType = S_SQS
        isOPI == tranType = S_OPI
        isOPO == tranType = S_OPO
        isNF == tranType = S_NF \/ startsWith(tranType, S_NF)
        isBuyType == isBuy \/ isSQB \/ isOPI
        isSellType == isSell \/ isSQS \/ isOPO \/ isNF
        qty == Abs(e.qty)
    IN  IF qty = 0 THEN st
        ELSE IF isBuyType /\ ~isBonus
             THEN [st EXCEPT !.lotQueue = Append(@, Lot(qty, sumPrice(e, qty)))]
        ELSE IF isBonus
             THEN [st EXCEPT !.lotQueue = Append(@, Lot(qty, Num(0)))]
        ELSE IF isSellType
             THEN [st EXCEPT !.lotQueue = sumConsume(@, qty)]
        ELSE st

\* a stored transaction as the replay sees it
sumTransaction(st, t) ==
    LET grouped == [st EXCEPT !.transactions = @ + 1]
    IN  IF sumIsDividend(t.tranType) THEN grouped
        ELSE sumEvent(grouped, [tranType |-> trim(toUpperCase(t.tranType)), qty |-> t.qty,
                            netAmount |-> t.netAmount, rate |-> t.rate,
                            netrate |-> t.netrate, isBonus |-> FALSE])

\* an indexed bonus as the replay sees it
sumBonus(st, b) ==
    sumEvent(st, [tranType |-> S_BONUS, qty |-> b.bonusShare, netAmount |-> 0,
                  rate |-> 0, netrate |-> 0, isBonus |-> TRUE])

\* the entry of the response for the security
sumResult(st) ==
    LET holdingQty == SumQty(st.lotQueue)
        totalCostBasis == SumCost(st.lotQueue)
    IN  [currentHolding |-> holdingQty,
         avgCost |-> IF holdingQty > 0 THEN RatDiv(totalCostBasis, Num(holdingQty))
                     ELSE Num(0),
         holdingValue |-> IF holdingQty > 0 THEN totalCostBasis ELSE Num(0)]

(***************************************************************************)
(* fifoProcess.                                                            *)
(* fifo = [buyQueue, buyQty, sellQty, buyValue, sellValue, sellCost,       *)
(*         availableQty].                                                  *)
(***************************************************************************)
FifoInit ==
    [buyQueue |-> <<>>, buyQty |-> 0, sellQty |-> 0, buyValue |-> 0,
     sellValue |-> 0, sellCost |-> Num(0), availableQty |-> 0]

\* while (remainingToMatch > 0 && buyQueue.length)
RECURSIVE fifoConsume(_, _, _, _)
fifoConsume(buyQueue, remainingToMatch, sellCost, availableQty) ==
    IF remainingToMatch > 0 /\ buyQueue # <<>>
    THEN LET lot == Head(buyQueue)
             consume == Min(lot.qty, remainingToMatch)
             left == lot.qty - consume
         IN  fifoConsume(
                 IF left = 0 THEN Tail(buyQueue)
                 ELSE <<Lot(left, lot.price)>> \o Tail(buyQueue),
                 remainingToMatch - consume,
                 RatAdd(sellCost, RatMul(Num(consume), lot.price)),
                 availableQty - consume)
    ELSE [buyQueue |-> buyQueue, sellCost |-> sellCost, availableQty |-> availableQty]

\* a variant of the sell branch that books only the matched shares of a sale;
\* the oversell property tells it from fifoSell
fifoSellMatchedOnly(st, absQty, absValue) ==
    LET remainingToMatch == Min(absQty, st.availableQty)
        c == fifoConsume(st.buyQueue, remainingToMatch, st.sellCost, st.availableQty)
    IN  [st EXCEPT !.sellQty = @ + remainingToMatch,
                   !.sellValue = @ + absValue,
                   !.buyQueue = c.buyQueue,
                   !.sellCost = c.sellCost,
                   !.availableQty = c.availableQty]

\* a variant of the sell branch that leaves the counter availableQty alone;
\* the counter property tells it from fifoSell
fifoSellKeepsCount(st, absQty, absValue) ==
    LET remainingToMatch == Min(absQty, st.availableQty)
        c == fifoConsume(st.buyQueue, remainingToMatch, st.sellCost, st.availableQty)
    IN  [st EXCEPT !.sellQty = @ + absQty,
                   !.sellValue = @ + absValue,
                   !.buyQueue = c.buyQueue,
                   !.sellCost = c.sellCost]

\* the sell branch: else if (isSell) { ... }
fifoSell(st, absQty, absValue) ==
    LET remainingToMatch == Min(absQty, st.availableQty)
        c == fifoConsume(st.buyQueue, remainingToMatch, st.sellCost, st.availableQty)
    IN  [st EXCEPT !.sellQty = @ + absQty,
                   !.sellValue = @ + absValue,
                   !.buyQueue = c.buyQueue,
                   !.sellCost = c.sellCost,
                   !.availableQty = c.availableQty]

\* one iteration of for (const t of txns); t = [tranType, qty, netAmount]
fifoStep(st, t) ==
    LET type == trim(toUpperCase(t.tranType))
        qty == t.qty
        value == t.netAmount
        isBuy == IF startsWith(type, S_B) THEN TRUE
                 ELSE IF startsWith(type, S_S) THEN FALSE
                 ELSE IF qty < 0 THEN FALSE
                 ELSE qty > 0
        isSell == IF startsWith(type, S_B) THEN FALSE
                  ELSE IF startsWith(type, S_S) THEN TRUE
                  ELSE qty < 0
        absQty == Abs(qty)
        absValue == Abs(value)
    IN  IF qty = 0 THEN st
        ELSE IF ~isBuy /\ ~isSell THEN st
        ELSE IF isBuy /\ ~isSell
             THEN [st EXCEPT !.buyQueue = Append(@, Lot(absQty, Rat(absValue, absQty))),
                             !.buyQty = @ + absQty,
                             !.buyValue = @ + absValue,
                             !.availableQty = @ + absQty]
        ELSE fifoSell(st, absQty, absValue)

\* the record fifoProcess returns
fifoResult(st) ==
    LET holdingQty == SumQty(st.buyQueue)
        remainingCost == SumCost(st.buyQueue)
    IN  [holdingQty |-> holdingQty,
         remainingCost |-> remainingCost,
         avgCost |-> IF holdingQty > 0 THEN RatDiv(remainingCost, Num(holdingQty))
                     ELSE Num(0),
         profit |-> RatSub(Num(st.sellValue), st.sellCost),
         buyQty |-> st.buyQty,
         sellQty |-> st.sellQty,
         buyValue |-> st.buyValue,
         sellValue |-> st.sellValue]

(***************************************************************************)
(* exportClientTransactionsToExcel: the replay of one security.            *)
(* xport = [buyQueue, currentHoldings, rows, bonuses]: the FIFO queue, the *)
(* running holding, the number of rows pushed to allExcelRows and the      *)
(* number of matching bonus rows fetched (the export answers 404 when it   *)
(* is 0).  The export takes no as-of date.                                 *)
(***************************************************************************)
XportInit == [buyQueue |-> <<>>, currentHoldings |-> 0, rows |-> 0, bonuses |-> 0]

exportIsBuyTransaction(tranType) ==
    IF tranType = <<>> THEN FALSE
    ELSE LET type == trim(toUpperCase(tranType))
             isBuy == \/ startsWith(type, S_B)
                      \/ type = S_BUY
                      \/ type = S_PURCHASE
                      \/ includes(type, S_BUY)
             isSQB == type = S_SQB
             isOPI == type = S_OPI
         IN  (isBuy \/ isSQB \/ isOPI) /\ ~isDividendType(type)

exportIsSellTransaction(tranType) ==
    IF tranType = <<>> THEN FALSE
    ELSE LET type == trim(toUpperCase(tranType))
             isSell == \/ startsWith(type, S_S)
                       \/ type = S_SELL
                       \/ type = S_SALE
                       \/ includes(type, S_SELL)
             isSQS == type = S_SQS
             isOPO == type = S_OPO
             isNF == type = S_NF \/ startsWith(type, S_NF)
         IN  isSell \/ isSQS \/ isOPO \/ isNF

exportPrice(tx) ==
    LET qty == Abs(tx.qty)
        p1 == Abs(tx.netrate)
        p2 == IF p1 = 0 THEN Abs(tx.rate) ELSE p1
    IN  IF p2 = 0 /\ qty > 0 /\ tx.netAmount # 0
        THEN Rat(Abs(tx.netAmount), qty)
        ELSE Num(p2)

RECURSIVE exportConsume(_, _, _)
exportConsume(queue, remainingSellQty, sellCostBasis) ==
    IF remainingSellQty > 0 /\ queue # <<>>
    THEN LET oldestLot == Head(queue)
         IN  IF oldestLot.qty <= remainingSellQty
             THEN exportConsume(Tail(queue), remainingSellQty - oldestLot.qty,
                      RatAdd(sellCostBasis, RatMul(Num(oldestLot.qty), oldestLot.price)))
             ELSE exportConsume(
                      <<Lot(oldestLot.qty - remainingSellQty, oldestLot.price)>> \o Tail(queue),
                      0,
                      RatAdd(sellCostBasis, RatMul(Num(remainingSellQty), oldestLot.price)))
    ELSE [queue |-> queue, remaining |-> remainingSellQty, cost |-> sellCostBasis]

\* one iteration of the loop for an event of type 'transaction'
exportTransaction(st, tx) ==
    LET qty == Abs(tx.qty)
        price == exportPrice(tx)
        isBuy == exportIsBuyTransaction(tx.tranType)
        isSell == exportIsSellTransaction(tx.tranType)
        buyPrice == IF RatPos(price) THEN price
                    ELSE IF qty > 0 /\ tx.netAmount # 0 THEN Rat(Abs(tx.netAmount), qty)
                    ELSE Num(0)
        c == exportConsume(st.buyQueue, qty, Num(0))
        sold == st.currentHoldings - qty
    IN  IF isBuy /\ qty > 0
        THEN [st EXCEPT !.buyQueue = IF RatPos(buyPrice) THEN Append(@, Lot(qty, buyPrice))
                                     ELSE @,
                        !.currentHoldings = @ + qty,
                        !.rows = @ + 1]
        ELSE IF isSell /\ qty > 0
        THEN [st EXCEPT !.buyQueue = c.queue,
                        !.currentHoldings = IF sold < 0 THEN 0 ELSE sold,
                        !.rows = @ + 1]
        ELSE [st EXCEPT !.rows = @ + 1]

\* one iteration of the loop for an event of type 'bonus'
exportBonus(st, b) ==
    LET bonusShare == Abs(b.bonusShare)
    IN  IF bonusShare > 0
        THEN [st EXCEPT !.currentHoldings = @ + bonusShare,
                        !.rows = @ + 1,
                        !.bonuses = @ + 1]
        ELSE [st EXCEPT !.bonuses = @ + 1]

(***************************************************************************)
(* StockDetailModal: the summary cards and the transaction table computed  *)
(* from the rows getStockTransactionHistory returns.                       *)
(* modal = [totalBuyQty, totalSellQty, totalBuyAmount, totalSellAmount,    *)
(*          lotQueue].                                                     *)
(***************************************************************************)
ModalInit ==
    [totalBuyQty |-> 0, totalSellQty |-> 0, totalBuyAmount |-> 0,
     totalSellAmount |-> 0, lotQueue |-> <<>>]

\* the filter of buyTransactions
modalIsBuy(tranType) ==
    LET type == IF tranType # <<>> THEN trim(toUpperCase(tranType)) ELSE <<>>
        isBuy == \/ startsWith(type, S_B)
                 \/ type = S_BUY
                 \/ type = S_PURCHASE
                 \/ includes(type, S_BUY)
        isSQB == type = S_SQB
        isOPI == type = S_OPI
    IN  (isBuy \/ isSQB \/ isOPI) /\ ~isDividendType(type)

\* the filter of sellTransactions
modalIsSell(tranType) ==
    LET type == IF tranType # <<>> THEN trim(toUpperCase(tranType)) ELSE <<>>
        isSell == \/ startsWith(type, S_S)
                  \/ type = S_SELL
                  \/ type = S_SALE
                  \/ includes(type, S_SELL)
        isSQS == type = S_SQS
        isOPO == type = S_OPO
        isNF == type = S_NF \/ startsWith(type, S_NF)
    IN  isSell \/ isSQS \/ isOPO \/ isNF

\* the contribution of one returned row to the totals of the summary cards
modalTotals(st, r) ==
    LET qty == Abs(r.qty)
        absAmount == Abs(r.netAmount)
        buy == modalIsBuy(r.tranType)
        sell == modalIsSell(r.tranType)
    IN  [st EXCEPT !.totalBuyQty = IF buy THEN @ + qty ELSE @,
                   !.totalBuyAmount = IF buy THEN @ + absAmount ELSE @,
                   !.totalSellQty = IF sell THEN @ + qty ELSE @,
                   !.totalSellAmount = IF sell THEN @ + absAmount ELSE @]

modalPrice(r) ==
    LET price == IF r.netrate > 0 THEN r.netrate ELSE r.rate
    IN  IF price = 0 /\ r.netAmount # 0 /\ Abs(r.netAmount) > 0 /\ r.qty # 0
        THEN Rat(Abs(r.netAmount), Abs(r.qty))
        ELSE Num(price)

RECURSIVE modalConsume(_, _)
modalConsume(lotQueue, remaining) ==
    IF remaining > 0 /\ lotQueue # <<>>
    THEN LET lot == Head(lotQueue)
         IN  IF lot.qty <= remaining
             THEN modalConsume(Tail(lotQueue), remaining - lot.qty)
             ELSE modalConsume(<<Lot(lot.qty - remaining, lot.price)>> \o Tail(lotQueue), 0)
    ELSE lotQueue

\* one row of the transaction table: the filter, then the lot queue
modalTableRow(st, r) ==
    LET tranType == IF r.tranType # <<>> THEN trim(toUpperCase(r.tranType)) ELSE <<>>
        isBuy == \/ startsWith(tranType, S_B)
                 \/ tranType = S_BUY
                 \/ tranType = S_PURCHASE
                 \/ includes(tranType, S_BUY)
        isSell == \/ startsWith(tranType, S_S)
                  \/ tranType = S_SELL
                  \/ tranType = S_SALE
                  \/ includes(tranType, S_SELL)
        isBonus == tranType = S_BONUS \/ r.isBonus
        isSQB == tranType = S_SQB
        isSQS == tranType = S_SQS
        isOPI == tranType = S_OPI
        isOPO == tranType = S_OPO
        isNF == tranType = S_NF \/ startsWith(tranType, S_NF)
        shown == /\ (isBuy \/ isSell \/ isBonus \/ isSQB \/ isSQS \/ isOPI \/ isOPO \/ isNF)
                 /\ ~isDividendType(tranType)
        isBuyType == isBuy \/ isSQB \/ isOPI
        isSellType == isSell \/ isSQS \/ isOPO \/ isNF
        bonusQty == IF isBonus THEN r.qty ELSE 0
        qty == Abs(r.qty)
    IN  IF ~shown THEN st
        ELSE IF isBuyType /\ ~isBonus
             THEN IF qty > 0
                  THEN [st EXCEPT !.lotQueue = Append(@, Lot(qty, modalPrice(r)))]
                  ELSE st
        ELSE IF isBonus
             THEN IF bonusQty > 0
                  THEN [st EXCEPT !.lotQueue = Append(@, Lot(bonusQty, Num(0)))]
                  ELSE st
        ELSE IF isSellType
             THEN [st EXCEPT !.lotQueue = modalConsume(@, qty)]
        ELSE st

\* a transaction row as getStockTransactionHistory returns it
histTransactionRow(t) ==
    [tranType |-> t.tranType, qty |-> t.qty, netrate |-> t.netrate, rate |-> t.rate,
     netAmount |-> t.netAmount, isBonus |-> FALSE]

\* the bonus row getStockTransactionHistory creates
histBonusRow(b) ==
    [tranType |-> S_BONUS, qty |-> IF b.bonusShare >= 0 THEN b.bonusShare ELSE 0,
     netrate |-> 0, rate |-> 0, netAmount |-> 0, isBonus |-> TRUE]

modalRow(st, r) == modalTableRow(modalTotals(st, r), r)

(***************************************************************************)
(* The stored records the replays are fed with.                            *)
(***************************************************************************)
T_BUY == <<"B", "U", "Y">>
T_buy == <<" ", "b", "u", "y">>
T_SELL == <<"S", "E", "L", "L">>
T_DIO == <<"D", "I", "O">>
T_STOCK_DIVIDEND == <<"S", "T", "O", "C", "K", " ", "D", "I", "V", "I", "D", "E", "N", "D">>
T_OPI == <<"O", "P", "I">>
T_OPO == <<"O", "P", "O">>
T_SQB == <<"S", "Q", "B">>
T_SQS == <<"S", "Q", "S">>
T_NF == <<"N", "F", "-", "X">>
T_INT == <<"I", "N", "T">>

TranTypes ==
    {T_buy, T_SELL, T_DIO, T_STOCK_DIVIDEND, T_OPI, T_OPO, T_SQB, T_SQS, T_NF,
     T_INT}

\* NETRATE, RATE and Net_Amount of a stored row: a net rate, a rate only,
\* an amount only (stored negative), nothing
PriceFields ==
    {[netrate |-> 2, rate |-> 1, netAmount |-> 4],
     [netrate |-> 0, rate |-> 3, netAmount |-> 6],
     [netrate |-> 0, rate |-> 0, netAmount |-> -4],
     [netrate |-> 0, rate |-> 0, netAmount |-> 0]}

NetRateFields == {pf \in PriceFields : pf.netrate > 0}

Dates == 1..MaxDate

TransactionRow(ty, q, pf, d) ==
    [tranType |-> ty, qty |-> q, netrate |-> pf.netrate, rate |-> pf.rate,
     netAmount |-> pf.netAmount, trandate |-> d]

\* the stored rows of date d: plain buys and sells with every combination of
\* price fields, every other type code with a net rate and quantity 1, and a
\* row of quantity 0
Transactions(d) ==
    {TransactionRow(ty, q, pf, d) :
        ty \in {T_buy, T_SELL}, q \in 1..MaxQty, pf \in PriceFields}
    \cup {TransactionRow(ty, 1, pf, d) :
        ty \in TranTypes \ {T_buy, T_SELL}, pf \in NetRateFields}
    \cup {TransactionRow(T_buy, 0, pf, d) : pf \in NetRateFields}

Bonuses(d) == {[bonusShare |-> q, exDate |-> d] : q \in 0..MaxQty}

NoRecord ==
    [kind |-> "none", tranType |-> <<>>, qty |-> 0, netrate |-> 0, rate |-> 0,
     netAmount |-> 0, date |-> NoDate]

TransactionRecord(t) ==
    [kind |-> "transaction", tranType |-> t.tranType, qty |-> t.qty,
     netrate |-> t.netrate, rate |-> t.rate, netAmount |-> t.netAmount,
     date |-> t.trandate]

BonusRecord(b) ==
    [kind |-> "bonus", tranType |-> S_BONUS, qty |-> b.bonusShare, netrate |-> 0,
     rate |-> 0, netAmount |-> 0, date |-> b.exDate]

(***************************************************************************)
(* The categories and the resolved price as the specification states them, *)
(* and the record of what the sequence of getStockTransactionHistory held. *)
(***************************************************************************)
StatedCategory(tranType) ==
    LET type == trim(toUpperCase(tranType))
    IN  IF type = S_DIO \/ includes(type, S_DIVIDEND) THEN "Dividend"
        ELSE IF \/ startsWith(type, S_B) \/ type = S_PURCHASE \/ includes(type, S_BUY)
                \/ type = S_SQB \/ type = S_OPI
             THEN "Buy"
        ELSE IF \/ startsWith(type, S_S) \/ type = S_SALE \/ includes(type, S_SELL)
                \/ type = S_OPO \/ startsWith(type, S_NF)
             THEN "Sell"
        ELSE "Other"

StatedPrice(r) ==
    IF r.netrate > 0 THEN Num(r.netrate)
    ELSE IF r.rate > 0 THEN Num(r.rate)
    ELSE IF Abs(r.qty) > 0 /\ r.netAmount # 0 THEN Rat(Abs(r.netAmount), Abs(r.qty))
    ELSE Num(0)

\* seen = [sells, buyCost, matched, undated]: the number of Sell events and
\* the sum of quantity x price over the Buy events of the sequence; under
\* fifoProcess alone, the quantity its sells took out of the queue; whether a
\* bonus without ex-date has brought shares
SeenInit == [sells |-> 0, buyCost |-> Num(0), matched |-> 0, undated |-> FALSE]

seenTransaction(sn, t) ==
    LET category == StatedCategory(t.tranType)
    IN  [sells |-> IF category = "Sell" THEN sn.sells + 1 ELSE sn.sells,
         buyCost |-> IF category = "Buy"
                     THEN RatAdd(sn.buyCost, RatMul(Num(Abs(t.qty)), StatedPrice(t)))
                     ELSE sn.buyCost,
         matched |-> sn.matched,
         undated |-> sn.undated]

seenBonus(sn, b) ==
    [sn EXCEPT !.undated = @ \/ (b.exDate = NoDate /\ b.bonusShare > 0)]

(***************************************************************************)
(* The replay of the stored records, in the order of the sorts: ascending  *)
(* effective date, a transaction before a bonus of the same date.          *)
(***************************************************************************)
Engines(h, s, f, x, m) == [hist |-> h, summ |-> s, fifo |-> f, xport |-> x, modal |-> m]

Init ==
    /\ endDate \in {NoDate} \cup Dates
    /\ clock = SentinelDate
    /\ lastKind = "none"
    /\ nEvents = 0
    /\ hist = HistInit
    /\ summ = SummInit
    /\ fifo = FifoInit
    /\ xport = XportInit
    /\ modal = ModalInit
    /\ last = NoRecord
    /\ prev = Engines(HistInit, SummInit, FifoInit, XportInit, ModalInit)
    /\ seen = SeenInit
    /\ order = Unused
    /\ pricing = Unused
    /\ names = Unused
    /\ fetch = Unused

\* the next stored transaction: fetched by each handler unless its date filter
\* leaves it out, then replayed
ReplayTransaction(t) ==
    /\ nEvents < MaxEvents
    /\ t.trandate > clock \/ (t.trandate = clock /\ lastKind # "bonus")
    /\ hist' = IF histFetches(t) THEN histTransaction(hist, t) ELSE hist
    /\ summ' = IF sumFetches(t) THEN sumTransaction(summ, t) ELSE summ
    /\ fifo' = fifoStep(fifo, [tranType |-> t.tranType, qty |-> t.qty,
                                netAmount |-> t.netAmount])
    /\ xport' = exportTransaction(xport, t)
    /\ modal' = IF histFetches(t) THEN modalRow(modal, histTransactionRow(t)) ELSE modal
    /\ last' = TransactionRecord(t)
    /\ seen' = IF histFetches(t) THEN seenTransaction(seen, t) ELSE seen
    /\ prev' = Engines(hist, summ, fifo, xport, modal)
    /\ clock' = t.trandate
    /\ lastKind' = "transaction"
    /\ nEvents' = nEvents + 1
    /\ UNCHANGED <<endDate, order, pricing, names, fetch>>

\* the next stored bonus of the security
ReplayBonus(b) ==
    /\ nEvents < MaxEvents
    /\ bonusEffectiveDate(b) >= clock
    /\ hist' = histBonus(hist, b)
    /\ summ' = IF sumBonusIndexed(b) THEN sumBonus(summ, b) ELSE summ
    /\ fifo' = fifo
    /\ xport' = exportBonus(xport, b)
    /\ modal' = modalRow(modal, histBonusRow(b))
    /\ last' = BonusRecord(b)
    /\ seen' = seenBonus(seen, b)
    /\ prev' = Engines(hist, summ, fifo, xport, modal)
    /\ clock' = bonusEffectiveDate(b)
    /\ lastKind' = "bonus"
    /\ nEvents' = nEvents + 1
    /\ UNCHANGED <<endDate, order, pricing, names, fetch>>

Next ==
    \/ \E d \in Dates : \E t \in Transactions(d) : ReplayTransaction(t)
    \/ \E d \in {NoDate} \cup Dates : \E b \in Bonuses(d) : ReplayBonus(b)

Spec == Init /\ [][Next]_vars

(***************************************************************************)
(* fifoProcess alone, as getWeightedAverageCost calls it: the rows carry   *)
(* tranType, qty and netAmount only, so its sort (trandate, rowid) leaves  *)
(* them in the order of the query.                                         *)
(***************************************************************************)
FifoAmounts == {-4, 0, 3}

FifoRows ==
    {[tranType |-> ty, qty |-> q, netAmount |-> a] :
        ty \in {T_BUY, T_SELL, T_OPO}, q \in (-MaxQty)..MaxQty, a \in FifoAmounts}

FifoRecord(t) ==
    [kind |-> "transaction", tranType |-> t.tranType, qty |-> t.qty, netrate |-> 0,
     rate |-> 0, netAmount |-> t.netAmount, date |-> NoDate]

InitFifo ==
    /\ endDate = NoDate
    /\ clock = SentinelDate
    /\ lastKind = "none"
    /\ nEvents = 0
    /\ hist = HistInit
    /\ summ = SummInit
    /\ fifo = FifoInit
    /\ xport = XportInit
    /\ modal = ModalInit
    /\ last = NoRecord
    /\ prev = Engines(HistInit, SummInit, FifoInit, XportInit, ModalInit)
    /\ seen = SeenInit
    /\ order = Unused
    /\ pricing = Unused
    /\ names = Unused
    /\ fetch = Unused

\* the quantity a row takes out of the oldest lots of a queue: for a row
\* handled as a sell, its quantity as far as the queue holds it
fifoMatched(queue, t) ==
    LET type == trim(toUpperCase(t.tranType))
    IN  IF /\ t.qty # 0
           /\ \/ startsWith(type, S_S)
              \/ (~startsWith(type, S_B) /\ t.qty < 0)
        THEN Min(Abs(t.qty), SumQty(queue))
        ELSE 0

FifoTransaction(t) ==
    /\ nEvents < MaxEvents
    /\ fifo' = fifoStep(fifo, t)
    /\ last' = FifoRecord(t)
    /\ seen' = [seen EXCEPT !.matched = @ + fifoMatched(fifo.buyQueue, t)]
    /\ prev' = Engines(hist, summ, fifo, xport, modal)
    /\ lastKind' = "transaction"
    /\ nEvents' = nEvents + 1
    /\ UNCHANGED <<endDate, clock, hist, summ, xport, modal, order, pricing, names, fetch>>

NextFifo == \E t \in FifoRows : FifoTransaction(t)

SpecFifo == InitFifo /\ [][NextFifo]_vars

(***************************************************************************)
(* The sorts of the handlers.  One list of stored transactions and one of  *)
(* matching bonuses of a security are supplied in some order; each handler *)
(* sorts and merges them as its code does and replays the result.          *)
(* order = [phase, transactions, bonuses] and, once replayed, the merged   *)
(* sequences and results for the supplied order and for a second order of  *)
(* the same records.                                                       *)
(***************************************************************************)
\* rowid: 1000000 + idx, the row id the summary gives its idx-th bonus event
BonusRowidBase == 1000000

\* a.trandate ? new Date(a.trandate).getTime() : 0
getTime(trandate) == IF trandate = NoDate THEN 0 ELSE trandate

\* the comparator (trandate, then rowid || 0) of fifoProcess, of the summary
\* and of the transaction sort of the history
byDateRowid(a, b) ==
    IF getTime(a.trandate) # getTime(b.trandate)
    THEN getTime(a.trandate) - getTime(b.trandate)
    ELSE a.rowid - b.rowid

\* the comparator of allEvents.sort: date, then transactions before bonuses
byDateType(a, b) ==
    IF getTime(a.date) # getTime(b.date) THEN getTime(a.date) - getTime(b.date)
    ELSE IF a.type # b.type THEN (IF a.type = "transaction" THEN -1 ELSE 1)
    ELSE 0

\* Array.prototype.sort is stable: an element goes behind its equals
RECURSIVE insertByDateRowid(_, _)
insertByDateRowid(sorted, x) ==
    IF sorted = <<>> THEN <<x>>
    ELSE IF byDateRowid(Head(sorted), x) <= 0
         THEN <<Head(sorted)>> \o insertByDateRowid(Tail(sorted), x)
    ELSE <<x>> \o sorted

RECURSIVE sortByDateRowid(_)
sortByDateRowid(a) ==
    IF a = <<>> THEN <<>>
    ELSE insertByDateRowid(sortByDateRowid(SubSeq(a, 1, Len(a) - 1)), a[Len(a)])

RECURSIVE insertByDateType(_, _)
insertByDateType(sorted, x) ==
    IF sorted = <<>> THEN <<x>>
    ELSE IF byDateType(Head(sorted), x) <= 0
         THEN <<Head(sorted)>> \o insertByDateType(Tail(sorted), x)
    ELSE <<x>> \o sorted

RECURSIVE sortByDateType(_)
sortByDateType(a) ==
    IF a = <<>> THEN <<>>
    ELSE insertByDateType(sortByDateType(SubSeq(a, 1, Len(a) - 1)), a[Len(a)])

\* getHoldingsSummary: sortedTransactions without dividends, then the indexed
\* bonuses as BONUS events, sorted again
sumCombinedEvents(transactions, bonuses) ==
    LET sortedTransactions == sortByDateRowid(transactions)
        kept == SelectSeq(sortedTransactions, LAMBDA t : ~sumIsDividend(t.tranType))
        txEvents == [i \in 1..Len(kept) |->
                        [tranType |-> trim(toUpperCase(kept[i].tranType)),
                         qty |-> kept[i].qty, netAmount |-> kept[i].netAmount,
                         rate |-> kept[i].rate, netrate |-> kept[i].netrate,
                         trandate |-> kept[i].trandate, rowid |-> kept[i].rowid,
                         isBonus |-> FALSE]]
        matchingBonuses == SelectSeq(bonuses, sumBonusIndexed)
        bonusEvents == [i \in 1..Len(matchingBonuses) |->
                           [tranType |-> S_BONUS, qty |-> matchingBonuses[i].bonusShare,
                            netAmount |-> 0, rate |-> 0, netrate |-> 0,
                            trandate |-> bonusEffectiveDate(matchingBonuses[i]),
                            rowid |-> BonusRowidBase + (i - 1), isBonus |-> TRUE]]
    IN  sortByDateRowid(txEvents \o bonusEvents)

\* combinedEvents.forEach
RECURSIVE sumReplay(_, _)
sumReplay(st, events) ==
    IF events = <<>> THEN st ELSE sumReplay(sumEvent(st, Head(events)), Tail(events))

\* getStockTransactionHistory: the sorted transactions, then the bonuses,
\* sorted by date and kind
histAllEvents(transactions, bonuses) ==
    LET sorted == sortByDateRowid(transactions)
        allEvents ==
            [i \in 1..Len(sorted) |->
                [type |-> "transaction", data |-> sorted[i], date |-> sorted[i].trandate,
                 rowid |-> sorted[i].rowid]]
            \o [i \in 1..Len(bonuses) |->
                [type |-> "bonus", data |-> bonuses[i],
                 date |-> bonusEffectiveDate(bonuses[i]), rowid |-> 0]]
    IN  sortByDateType(allEvents)

\* for (const event of allEvents): the state of the replay after each event
RECURSIVE histStates(_, _)
histStates(st, events) ==
    IF events = <<>> THEN <<>>
    ELSE LET after == IF Head(events).type = "transaction"
                      THEN histTransaction(st, Head(events).data)
                      ELSE histBonus(st, Head(events).data)
         IN  <<after>> \o histStates(after, Tail(events))

\* exportClientTransactionsToExcel: the comparator of allEvents.sort; on equal
\* dates it looks at a.type only
exportByDateType(a, b) ==
    IF getTime(a.date) # getTime(b.date) THEN getTime(a.date) - getTime(b.date)
    ELSE IF a.type = "transaction" THEN -1 ELSE 1

\* exportClientTransactionsToExcel: the sorted transactions, then the bonuses,
\* before allEvents.sort
exportAllEvents(transactions, bonuses) ==
    LET sorted == sortByDateRowid(transactions)
    IN  [i \in 1..Len(sorted) |->
            [type |-> "transaction", date |-> sorted[i].trandate,
             rowid |-> sorted[i].rowid]]
        \o [i \in 1..Len(bonuses) |->
            [type |-> "bonus", date |-> bonusEffectiveDate(bonuses[i]),
             rowid |-> BonusRowidBase + i]]

\* Array.prototype.sort with a comparator that is not a consistent ordering
\* leaves the order to the engine: es is a possible outcome when, for every
\* element it puts before another, a call of the comparator says so
exportSortAdmits(es) ==
    \A i, j \in 1..Len(es) :
        i < j => \/ exportByDateType(es[i], es[j]) < 0
                 \/ exportByDateType(es[j], es[i]) > 0

\* getWeightedAverageCost hands fifoProcess rows of tranType, qty and netAmount
\* only: trandate and rowid are undefined
wacRows(rows) ==
    [i \in 1..Len(rows) |->
        [tranType |-> rows[i].tranType, qty |-> rows[i].qty,
         netAmount |-> rows[i].netAmount, trandate |-> NoDate, rowid |-> 0]]

RECURSIVE fifoReplay(_, _)
fifoReplay(st, txns) ==
    IF txns = <<>> THEN st ELSE fifoReplay(fifoStep(st, Head(txns)), Tail(txns))

\* fifoProcess(transactions): sort, replay, result
fifoProcess(transactions) ==
    fifoResult(fifoReplay(FifoInit, sortByDateRowid(transactions)))

\* the entry of the summary for a group of transactions and its bonuses
sumProcess(transactions, bonuses) ==
    sumResult(sumReplay([lotQueue |-> <<>>, transactions |-> Len(transactions)],
                        sumCombinedEvents(transactions, bonuses)))

\* getClientsWithCumulativeHoldings: the stockMap entry of one security and
\* its share of cumulativeHolding; rows and bonuses are taken as fetched
RECURSIVE stockMapEntry(_, _)
stockMapEntry(entry, rows) ==
    IF rows = <<>> THEN entry
    ELSE LET r == Head(rows)
             type == trim(toUpperCase(r.tranType))
             isBuy == startsWith(type, S_B) \/ type = S_SQB \/ type = S_OPI
             isSell == \/ startsWith(type, S_S) \/ type = S_SQS \/ type = S_OPO
                       \/ type = S_NF \/ startsWith(type, S_NF)
             isDividend == \/ type = S_DIO \/ type = S_DIVIDEND
                           \/ startsWith(type, S_DIVIDEND) \/ includes(type, S_DIVIDEND)
             qty == Abs(r.qty)
         IN  IF isDividend THEN stockMapEntry(entry, Tail(rows))
             ELSE IF isBuy
                  THEN stockMapEntry([entry EXCEPT !.present = TRUE, !.buyQty = @ + qty],
                                     Tail(rows))
             ELSE IF isSell
                  THEN stockMapEntry([entry EXCEPT !.present = TRUE, !.sellQty = @ + qty],
                                     Tail(rows))
             ELSE stockMapEntry([entry EXCEPT !.present = TRUE], Tail(rows))

RECURSIVE sumBonusShare(_)
sumBonusShare(bonuses) ==
    IF bonuses = <<>> THEN 0 ELSE Head(bonuses).bonusShare + sumBonusShare(Tail(bonuses))

cumulativeHolding(transactions, bonuses) ==
    LET stock == stockMapEntry([present |-> FALSE, buyQty |-> 0, sellQty |-> 0],
                               transactions)
        held == stock.buyQty - stock.sellQty + sumBonusShare(bonuses)
    IN  IF ~stock.present THEN 0 ELSE IF held > 0 THEN held ELSE 0

RowIds == {1, 2, BonusRowidBase + 1}

OrderTransactions ==
    {[tranType |-> ty, qty |-> q, netrate |-> 2, rate |-> 0, netAmount |-> 2 * q,
      trandate |-> d, rowid |-> r] :
        ty \in {T_BUY, T_SELL}, q \in 1..MaxQty, d \in Dates, r \in RowIds}

\* the lists of at most MaxRows stored transactions, every row with its own ROWID
TransactionLists ==
    {ts \in UNION {[1..n -> OrderTransactions] : n \in 0..MaxRows} :
        \A i, j \in 1..Len(ts) : i # j => ts[i].rowid # ts[j].rowid}

BonusLists ==
    UNION {[1..n -> {[bonusShare |-> q, exDate |-> d] :
                        q \in 1..MaxQty, d \in {NoDate} \cup Dates}] : n \in 0..MaxRows}

\* the same records in another order
Reorderings(a) ==
    {[i \in 1..Len(a) |-> a[p[i]]] : p \in Permutations(1..Len(a))}

LedgerIdle ==
    /\ endDate = NoDate
    /\ clock = SentinelDate
    /\ lastKind = "none"
    /\ nEvents = 0
    /\ hist = HistInit
    /\ summ = SummInit
    /\ fifo = FifoInit
    /\ xport = XportInit
    /\ modal = ModalInit
    /\ last = NoRecord
    /\ prev = Engines(HistInit, SummInit, FifoInit, XportInit, ModalInit)
    /\ seen = SeenInit

InitOrder ==
    /\ LedgerIdle
    /\ order \in {[phase |-> "supplied", transactions |-> ts, bonuses |-> bs] :
                     ts \in TransactionLists, bs \in BonusLists}
    /\ pricing = Unused
    /\ names = Unused
    /\ fetch = Unused

\* the handlers sort and replay the supplied records, and the same records
\* supplied in the order (ts, bs)
SortAndReplay(ts, bs) ==
    /\ order.phase = "supplied"
    /\ order' =
        [phase |-> "replayed",
         transactions |-> order.transactions,
         bonuses |-> order.bonuses,
         combinedEvents |-> sumCombinedEvents(order.transactions, order.bonuses),
         allEvents |-> histAllEvents(order.transactions, order.bonuses),
         summary |-> sumProcess(order.transactions, order.bonuses),
         weightedAverage |-> fifoProcess(wacRows(order.transactions)),
         cumulativeHolding |-> cumulativeHolding(order.transactions, order.bonuses),
         resupplied |-> [transactions |-> ts, bonuses |-> bs],
         summaryAgain |-> sumProcess(ts, bs),
         weightedAverageAgain |-> fifoProcess(wacRows(ts))]
    /\ UNCHANGED <<ledgerVars, pricing, names, fetch>>

NextOrder ==
    \E ts \in Reorderings(order.transactions) : \E bs \in Reorderings(order.bonuses) :
        SortAndReplay(ts, bs)

SpecOrder == InitOrder /\ [][NextOrder]_vars

(***************************************************************************)
(* getStockTransactionHistory over a list of fetched transactions of any   *)
(* type and at most one matched bonus: order becomes [phase, transactions, *)
(* bonuses, allEvents, states], states[i] the replay after allEvents[i]    *)
(* with the row pushed to mergedTransactions.                              *)
(***************************************************************************)
HistoryRows ==
    {[tranType |-> ty, qty |-> q, netrate |-> 2, rate |-> 0, netAmount |-> 2 * q,
      trandate |-> d] :
        ty \in {T_buy, T_SELL, T_DIO}, q \in {0, MaxQty}, d \in Dates}

\* the fetched rows in the order of the query, ROWID ascending
HistoryLists ==
    {[i \in 1..Len(ts) |->
        [tranType |-> ts[i].tranType, qty |-> ts[i].qty, netrate |-> ts[i].netrate,
         rate |-> ts[i].rate, netAmount |-> ts[i].netAmount,
         trandate |-> ts[i].trandate, rowid |-> i]] :
        ts \in UNION {[1..n -> HistoryRows] : n \in 0..MaxRows}}

HistoryBonusLists ==
    {<<>>} \cup {<<[bonusShare |-> q, exDate |-> d]>> :
                    q \in {0, MaxQty}, d \in {NoDate} \cup Dates}

InitHistory ==
    /\ LedgerIdle
    /\ order \in {[phase |-> "supplied", transactions |-> ts, bonuses |-> bs] :
                     ts \in HistoryLists, bs \in HistoryBonusLists}
    /\ pricing = Unused
    /\ names = Unused
    /\ fetch = Unused

MergeAndReplay ==
    /\ order.phase = "supplied"
    /\ order' =
        [phase |-> "history",
         transactions |-> order.transactions,
         bonuses |-> order.bonuses,
         allEvents |-> histAllEvents(order.transactions, order.bonuses),
         states |-> histStates(HistInit,
                               histAllEvents(order.transactions, order.bonuses))]
    /\ UNCHANGED <<ledgerVars, pricing, names, fetch>>

NextHistory == MergeAndReplay

SpecHistory == InitHistory /\ [][NextHistory]_vars

(***************************************************************************)
(* The merge of exportClientTransactionsToExcel over the same supplied     *)
(* records: order becomes [phase, transactions, bonuses, exportEvents],    *)
(* exportEvents an outcome of allEvents.sort.                              *)
(***************************************************************************)
ExportSort(xs) ==
    /\ order.phase = "supplied"
    /\ exportSortAdmits(xs)
    /\ order' = [phase |-> "merged",
                 transactions |-> order.transactions,
                 bonuses |-> order.bonuses,
                 exportEvents |-> xs]
    /\ UNCHANGED <<ledgerVars, pricing, names, fetch>>

NextExportSort ==
    \E xs \in Reorderings(exportAllEvents(order.transactions, order.bonuses)) :
        ExportSort(xs)

SpecExportSort == InitOrder /\ [][NextExportSort]_vars

(***************************************************************************)
(* The price resolved for one stored row, by getHoldingsSummary and by     *)
(* getStockTransactionHistory.  pricing = [phase, row] and, once resolved, *)
(* the price of each handler; the summary skips a row of quantity 0 before *)
(* it resolves a price.                                                    *)
(***************************************************************************)
PricedRows ==
    {[tranType |-> T_BUY, qty |-> q, netrate |-> n, rate |-> r, netAmount |-> a] :
        q \in (-MaxQty)..MaxQty, n \in {-2, 0, 2}, r \in {-3, 0, 3}, a \in {-4, 0, 4}}

InitPrice ==
    /\ LedgerIdle
    /\ pricing \in {[phase |-> "stored", row |-> t] : t \in PricedRows}
    /\ order = Unused
    /\ names = Unused
    /\ fetch = Unused

ResolvePrice ==
    /\ pricing.phase = "stored"
    /\ pricing' =
        [phase |-> "resolved",
         row |-> pricing.row,
         summaryResolves |-> Abs(pricing.row.qty) # 0,
         summary |-> IF Abs(pricing.row.qty) # 0
                     THEN sumPrice(pricing.row, Abs(pricing.row.qty))
                     ELSE Num(0),
         history |-> histPrice(pricing.row)]
    /\ UNCHANGED <<ledgerVars, order, names, fetch>>

NextPrice == ResolvePrice

SpecPrice == InitPrice /\ [][NextPrice]_vars

(***************************************************************************)
(* Name matching.  normalizeName is defined twice in the controller, once  *)
(* in getHoldingsSummary and once in getStockTransactionHistory; both work *)
(* on the characters of the name.  A word character is what the regular    *)
(* expression class \w accepts, a word boundary \b lies between a word     *)
(* character and anything else.                                            *)
(***************************************************************************)
Digits == <<"0", "1", "2", "3", "4", "5", "6", "7", "8", "9">>

isWordChar(c) ==
    \/ \E k \in 1..26 : Upper[k] = c \/ Lower[k] = c
    \/ \E k \in 1..10 : Digits[k] = c
    \/ c = "_"

\* .replace(/\s+/g, ' ')
RECURSIVE collapseSpaces(_)
collapseSpaces(s) ==
    IF s = <<>> THEN <<>>
    ELSE IF Head(s) = " " THEN <<" ">> \o collapseSpaces(trimStart(s))
    ELSE <<Head(s)>> \o collapseSpaces(Tail(s))

\* .replace(/[^\w\s]/g, '')
removeSpecial(s) == SelectSeq(s, LAMBDA c : isWordChar(c) \/ c = " ")

\* .replace(/\bword\b/g, by), scanning from the left; boundary tells whether
\* a word may start at the head of s
RECURSIVE replaceWordFrom(_, _, _, _)
replaceWordFrom(s, word, by, boundary) ==
    IF s = <<>> THEN <<>>
    ELSE IF /\ boundary
            /\ startsWith(s, word)
            /\ (Len(s) = Len(word) \/ ~isWordChar(s[Len(word) + 1]))
         THEN by \o replaceWordFrom(SubSeq(s, Len(word) + 1, Len(s)), word, by, FALSE)
    ELSE <<Head(s)>> \o replaceWordFrom(Tail(s), word, by, ~isWordChar(Head(s)))

replaceWord(s, word, by) == replaceWordFrom(s, word, by, TRUE)

W_LTD == <<"L", "T", "D">>
W_LIMITED == <<"L", "I", "M", "I", "T", "E", "D">>
W_INC == <<"I", "N", "C">>
W_INCORPORATED == <<"I", "N", "C", "O", "R", "P", "O", "R", "A", "T", "E", "D">>
W_CORP == <<"C", "O", "R", "P">>
W_CORPORATION == <<"C", "O", "R", "P", "O", "R", "A", "T", "I", "O", "N">>
W_PVT == <<"P", "V", "T">>
W_PRIVATE == <<"P", "R", "I", "V", "A", "T", "E">>

\* normalizeName of getHoldingsSummary
sumNormalizeName(name) ==
    IF name = <<>> THEN <<>>
    ELSE collapseSpaces(
           replaceWord(
             replaceWord(
               replaceWord(
                 replaceWord(
                   removeSpecial(collapseSpaces(toUpperCase(trim(name)))),
                   W_LIMITED, W_LTD),
                 W_INCORPORATED, W_INC),
               W_CORPORATION, W_CORP),
             W_PRIVATE, W_PVT))

\* normalizeName of getStockTransactionHistory
histNormalizeName(name) ==
    IF name = <<>> THEN <<>>
    ELSE collapseSpaces(
           replaceWord(
             replaceWord(
               replaceWord(
                 removeSpecial(collapseSpaces(toUpperCase(trim(name)))),
                 W_LIMITED, W_LTD),
               W_INCORPORATED, W_INC),
             W_CORPORATION, W_CORP))

\* .replace(/\b(LTD|LIMITED|INC|INCORPORATED|CORP|CORPORATION|PVT|PRIVATE)\b/g, '').trim()
SuffixWords ==
    <<W_LTD, W_LIMITED, W_INC, W_INCORPORATED, W_CORP, W_CORPORATION, W_PVT, W_PRIVATE>>

RECURSIVE removeWords(_, _)
removeWords(s, ws) ==
    IF ws = <<>> THEN s ELSE removeWords(replaceWord(s, Head(ws), <<>>), Tail(ws))

coreName(normalized) == trim(removeWords(normalized, SuffixWords))

\* the filter of getStockTransactionHistory over the bonus records of the client
histMatchesStock(companyName, stockName) ==
    LET normalizedCompanyName == histNormalizeName(companyName)
        normalizedStockName == histNormalizeName(stockName)
        shorter == IF Len(normalizedCompanyName) < Len(normalizedStockName)
                   THEN normalizedCompanyName ELSE normalizedStockName
    IN  /\ trim(companyName) # <<>>
        /\ \/ normalizedCompanyName = normalizedStockName
           \/ /\ normalizedStockName # <<>>
              /\ normalizedCompanyName # <<>>
              /\ \/ /\ coreName(normalizedCompanyName) = coreName(normalizedStockName)
                    /\ Len(coreName(normalizedCompanyName)) > 0
                 \/ /\ \/ includes(normalizedCompanyName, normalizedStockName)
                       \/ includes(normalizedStockName, normalizedCompanyName)
                    /\ Len(shorter) >= 5

\* bonusesByName.get(normalizeName(stockName)) of getHoldingsSummary
sumMatchesStock(companyName, stockName) ==
    /\ sumNormalizeName(companyName) # <<>>
    /\ sumNormalizeName(companyName) = sumNormalizeName(stockName)

\* the key under which getHoldingsSummary groups a stored row
sumGroupKey(stockName) == toUpperCase(trim(stockName))

\* const excludedNames = ['CASH', 'TAX', 'TDS', 'TAX DEDUCTED AT SOURCE']
excludedNames ==
    {<<"C", "A", "S", "H">>,
     <<"T", "A", "X">>,
     <<"T", "D", "S">>,
     <<"T", "A", "X", " ", "D", "E", "D", "U", "C", "T", "E", "D", " ", "A", "T", " ", "S", "O", "U", "R", "C", "E">>}

\* a variant of the exclusion that compares the name as it is stored; the
\* exclusion property tells it from sumExcluded
sumExcludedAsStored(stockName) == stockName \in excludedNames

\* excludedNames.includes(normalizedName)
sumExcluded(stockName) == toUpperCase(trim(stockName)) \in excludedNames

\* the rows of allRows that reach byStock
sumGrouped(rows) ==
    SelectSeq(rows, LAMBDA stockName : stockName # <<>> /\ ~sumExcluded(stockName))

\* Object.keys(byStock)
sumByStock(rows) == {sumGroupKey(sumGrouped(rows)[i]) : i \in 1..Len(sumGrouped(rows))}

\* stockInfo[key].stockName: the trimmed name of the first row of the group
sumStockInfo(rows, key) ==
    LET grouped == sumGrouped(rows)
        first == CHOOSE i \in 1..Len(grouped) :
                    /\ sumGroupKey(grouped[i]) = key
                    /\ \A j \in 1..(i - 1) : sumGroupKey(grouped[j]) # key
    IN  trim(grouped[first])

\* names as they are stored

N_AB_LTD == <<"A", "B", " ", "L", "T", "D">>
N_AB_LIMITED == <<"A", "B", " ", "L", "I", "M", "I", "T", "E", "D">>
N_ab_ltd_dot == <<"a", "b", " ", "l", "t", "d", ".">>
N_AB_PRIVATE == <<"A", "B", " ", "P", "R", "I", "V", "A", "T", "E">>
N_AB_PVT == <<"A", "B", " ", "P", "V", "T">>
N_AB_INC == <<"A", "B", " ", "I", "N", "C">>
N_ABCDE == <<"A", "B", "C", "D", "E">>
N_ABCDE_F == <<"A", "B", "C", "D", "E", " ", "F">>
N_A_and_B_LTD == <<"A", "&", "B", " ", "L", "T", "D">>
N_AB_LTD_spaced == <<" ", "A", "B", " ", " ", "L", "T", "D">>
N_cash == <<"c", "a", "s", "h">>
N_TDS_spaced == <<" ", "T", "D", "S", " ">>
N_Tax_Deducted == <<"T", "a", "x", " ", "D", "e", "d", "u", "c", "t", "e", "d", " ", "a", "t", " ", "S", "o", "u", "r", "c", "e">>

StoredNames ==
    {N_AB_LTD,
     N_AB_LIMITED,
     N_ab_ltd_dot,
     N_AB_PRIVATE,
     N_AB_PVT,
     N_AB_INC,
     N_ABCDE,
     N_ABCDE_F,
     N_A_and_B_LTD,
     N_AB_LTD_spaced,
     N_cash,
     N_TDS_spaced,
     N_Tax_Deducted}

(***************************************************************************)
(* names = [phase, securityName, otherName]: the security name of a stored *)
(* row and a second stored name, which is read once as the company name of *)
(* a bonus record of the same client and once as the security name of      *)
(* another row of the same client.                                         *)
(***************************************************************************)
InitNames ==
    /\ LedgerIdle
    /\ names \in {[phase |-> "stored", securityName |-> n, otherName |-> m] :
                    n \in StoredNames, m \in StoredNames}
    /\ order = Unused
    /\ pricing = Unused
    /\ fetch = Unused

MatchAndGroup ==
    /\ names.phase = "stored"
    /\ names' =
        [phase |-> "matched",
         securityName |-> names.securityName,
         otherName |-> names.otherName,
         historyMerges |-> histMatchesStock(names.otherName, names.securityName),
         summaryMerges |-> sumMatchesStock(names.otherName, names.securityName),
         sameLedger |-> sumGroupKey(names.otherName) = sumGroupKey(names.securityName),
         byStock |-> sumByStock(<<names.securityName, names.otherName>>),
         result |-> {sumStockInfo(<<names.securityName, names.otherName>>, key) :
                        key \in sumByStock(<<names.securityName, names.otherName>>)},
         bonusGroups |->
             {key \in sumByStock(<<names.securityName, names.otherName>>) :
                 sumMatchesStock(names.otherName,
                     sumStockInfo(<<names.securityName, names.otherName>>, key))}]
    /\ UNCHANGED <<ledgerVars, order, pricing, fetch>>

NextNames == MatchAndGroup

SpecNames == InitNames /\ [][NextNames]_vars

(***************************************************************************)
(* getHoldingsSummary over the stored rows of several securities of one    *)
(* client.  A stored row carries its Security_Name; order becomes [phase,  *)
(* transactions, bonuses, summaries, alone], summaries the entries of the  *)
(* response and alone the entries of the responses for the rows of each    *)
(* single security.                                                        *)
(***************************************************************************)
\* the keys of byStock in the order the rows create them
RECURSIVE sumKeys(_)
sumKeys(rows) ==
    IF rows = <<>> THEN <<>>
    ELSE LET earlier == sumKeys(SubSeq(rows, 1, Len(rows) - 1))
             stockName == rows[Len(rows)].stockName
         IN  IF stockName = <<>> \/ sumExcluded(stockName) THEN earlier
             ELSE IF \E i \in 1..Len(earlier) : earlier[i] = sumGroupKey(stockName)
                  THEN earlier
             ELSE Append(earlier, sumGroupKey(stockName))

\* byStock[key]
sumGroupRows(rows, key) ==
    SelectSeq(rows, LAMBDA r : /\ r.stockName # <<>>
                               /\ ~sumExcluded(r.stockName)
                               /\ sumGroupKey(r.stockName) = key)

\* bonusesByName.get(normalizeName(stockName)) || []
sumMatchingBonuses(bonuses, stockName) ==
    SelectSeq(bonuses, LAMBDA b : sumMatchesStock(b.companyName, stockName))

\* a variant of the loop over the groups in which lotQueue lives outside the
\* loop and is handed from one group to the next; the independence property
\* tells it from sumSummaries
RECURSIVE sumSharedFrom(_, _, _, _)
sumSharedFrom(lotQueue, keys, rows, bonuses) ==
    IF keys = <<>> THEN {}
    ELSE LET transactions == sumGroupRows(rows, Head(keys))
             stockName == trim(transactions[1].stockName)
             st == sumReplay([lotQueue |-> lotQueue, transactions |-> Len(transactions)],
                             sumCombinedEvents(transactions,
                                               sumMatchingBonuses(bonuses, stockName)))
         IN  {[stockName |-> stockName, entry |-> sumResult(st)]}
             \cup sumSharedFrom(st.lotQueue, Tail(keys), rows, bonuses)

sumSummariesSharedQueue(rows, bonuses) == sumSharedFrom(<<>>, sumKeys(rows), rows, bonuses)

\* for (const key of Object.keys(byStock)) { ... result.push(...) }
sumSummaries(rows, bonuses) ==
    {LET transactions == sumGroupRows(rows, sumKeys(rows)[i])
         stockName == trim(transactions[1].stockName)
     IN  [stockName |-> stockName,
          entry |-> sumProcess(transactions, sumMatchingBonuses(bonuses, stockName))] :
        i \in 1..Len(sumKeys(rows))}

GroupNames == {N_AB_LTD, N_ABCDE}

GroupRows ==
    {[stockName |-> n, tranType |-> ty, qty |-> q, netrate |-> 2, rate |-> 0,
      netAmount |-> 2 * q, trandate |-> 1] :
        n \in GroupNames, ty \in {T_BUY, T_SELL}, q \in 1..MaxQty}

\* the stored rows in the order of the query, ROWID ascending
GroupLists ==
    {[i \in 1..Len(ts) |->
        [stockName |-> ts[i].stockName, tranType |-> ts[i].tranType, qty |-> ts[i].qty,
         netrate |-> ts[i].netrate, rate |-> ts[i].rate, netAmount |-> ts[i].netAmount,
         trandate |-> ts[i].trandate, rowid |-> i]] :
        ts \in UNION {[1..n -> GroupRows] : n \in 0..MaxRows}}

GroupBonusLists ==
    {<<>>} \cup {<<[companyName |-> n, bonusShare |-> 1, exDate |-> NoDate]>> :
                    n \in GroupNames}

InitGroups ==
    /\ LedgerIdle
    /\ order \in {[phase |-> "supplied", transactions |-> ts, bonuses |-> bs] :
                     ts \in GroupLists, bs \in GroupBonusLists}
    /\ pricing = Unused
    /\ names = Unused
    /\ fetch = Unused

SummariseGroups ==
    /\ order.phase = "supplied"
    /\ order' =
        [phase |-> "summarised",
         transactions |-> order.transactions,
         bonuses |-> order.bonuses,
         summaries |-> sumSummaries(order.transactions, order.bonuses),
         alone |-> [n \in GroupNames |->
                      sumSummaries(SelectSeq(order.transactions,
                                             LAMBDA r : r.stockName = n),
                                   order.bonuses)]]
    /\ UNCHANGED <<ledgerVars, pricing, names, fetch>>

NextGroups == SummariseGroups

SpecGroups == InitGroups /\ [][NextGroups]_vars

(***************************************************************************)
(* The paginated reads of getHoldingsSummary.  Only the number of rows     *)
(* matters here: fetch.stored and fetch.storedBonus rows are in the tables *)
(* of the client, a query returns the rows from its OFFSET up to LIMIT, or *)
(* fails.  The batch size (250 in the code) and the safety limit (100000)  *)
(* are scaled down together with the table sizes.                          *)
(***************************************************************************)
MaxStored == 7
batchSize == 2
SafetyLimit == 4

\* the number of rows of `LIMIT batchSize OFFSET offset` over a table of n rows
executeZCQLQuery(n, offset) == IF offset >= n THEN 0 ELSE Min(batchSize, n - offset)

\* the state when the handler sends its response: the replay ran over the
\* rows fetched so far and res.status(200).json(result) is reached
respond(f) == [f EXCEPT !.phase = "responded", !.status = 200]

InitFetch ==
    /\ LedgerIdle
    /\ fetch \in {[phase |-> "transactions", stored |-> n, storedBonus |-> b,
                   offset |-> 0, hasMore |-> TRUE, allRows |-> 0,
                   bonusOffset |-> 0, bonusHasMore |-> TRUE, allBonusRows |-> 0,
                   batchErr |-> FALSE, status |-> 0] :
                    n \in 0..MaxStored, b \in 0..MaxStored}
    /\ order = Unused
    /\ pricing = Unused
    /\ names = Unused

\* one pass of `while (hasMore)` whose query answers
FetchBatch ==
    /\ fetch.phase = "transactions"
    /\ LET rows == executeZCQLQuery(fetch.stored, fetch.offset)
           offset == IF rows = 0 \/ rows < batchSize
                     THEN fetch.offset ELSE fetch.offset + batchSize
           hasMore == rows # 0 /\ rows >= batchSize /\ ~(offset > SafetyLimit)
       IN  fetch' = [fetch EXCEPT !.allRows = @ + rows,
                                  !.offset = offset,
                                  !.hasMore = hasMore,
                                  !.phase = IF hasMore THEN "transactions" ELSE "bonuses"]
    /\ UNCHANGED <<ledgerVars, order, pricing, names>>

\* one pass of `while (hasMore)` whose query throws: catch (batchErr)
FetchBatchFails ==
    /\ fetch.phase = "transactions"
    /\ fetch' = [fetch EXCEPT !.hasMore = FALSE, !.batchErr = TRUE, !.phase = "bonuses"]
    /\ UNCHANGED <<ledgerVars, order, pricing, names>>

\* one pass of `while (bonusHasMore)` whose query answers
FetchBonusBatch ==
    /\ fetch.phase = "bonuses"
    /\ LET bonusRows == executeZCQLQuery(fetch.storedBonus, fetch.bonusOffset)
           bonusOffset == IF bonusRows = 0 \/ bonusRows < batchSize
                          THEN fetch.bonusOffset ELSE fetch.bonusOffset + batchSize
           bonusHasMore ==
               bonusRows # 0 /\ bonusRows >= batchSize /\ ~(bonusOffset > SafetyLimit)
           fetched == [fetch EXCEPT !.allBonusRows = @ + bonusRows,
                                    !.bonusOffset = bonusOffset,
                                    !.bonusHasMore = bonusHasMore]
       IN  fetch' = IF bonusHasMore THEN fetched ELSE respond(fetched)
    /\ UNCHANGED <<ledgerVars, order, pricing, names>>

\* one pass of `while (bonusHasMore)` whose query throws: catch (bonusErr)
FetchBonusBatchFails ==
    /\ fetch.phase = "bonuses"
    /\ fetch' = respond([fetch EXCEPT !.bonusHasMore = FALSE, !.batchErr = TRUE])
    /\ UNCHANGED <<ledgerVars, order, pricing, names>>

NextFetch ==
    \/ FetchBatch
    \/ FetchBatchFails
    \/ FetchBonusBatch
    \/ FetchBonusBatchFails

SpecFetch == InitFetch /\ [][NextFetch]_vars

(***************************************************************************)
(* The vocabulary of the properties: the FIFO reference operations and the *)
(* last record replayed.                                                   *)
(***************************************************************************)
\* the queue without its q oldest shares
RECURSIVE WithoutOldest(_, _)
WithoutOldest(queue, q) ==
    IF q = 0 \/ queue = <<>> THEN queue
    ELSE IF Head(queue).qty <= q THEN WithoutOldest(Tail(queue), q - Head(queue).qty)
    ELSE <<Lot(Head(queue).qty - q, Head(queue).price)>> \o Tail(queue)

\* the cost of the q oldest shares of the queue
RECURSIVE CostOfOldest(_, _)
CostOfOldest(queue, q) ==
    IF q = 0 \/ queue = <<>> THEN Num(0)
    ELSE IF Head(queue).qty <= q
         THEN RatAdd(RatMul(Num(Head(queue).qty), Head(queue).price),
                     CostOfOldest(Tail(queue), q - Head(queue).qty))
    ELSE RatMul(Num(q), Head(queue).price)

LastTransaction == last.kind = "transaction"

LastBonus == last.kind = "bonus"

LastQty == Abs(last.qty)

LastType == trim(toUpperCase(last.tranType))

\* the last record is within the as-of date of the request
LastWithinEndDate == endDate = NoDate \/ last.date <= endDate

\* fifoProcess handles the last row as a sell: S-prefixed, or a negative
\* quantity under a type code that starts with neither B nor S
LastFifoSell ==
    /\ LastTransaction
    /\ last.qty # 0
    /\ LET type == trim(toUpperCase(last.tranType))
       IN  \/ startsWith(type, S_S)
           \/ (~startsWith(type, S_B) /\ last.qty < 0)

(***************************************************************************)
(* C1: in the replay of getStockTransactionHistory the running held        *)
(* quantity currentHoldings is never negative after any processed event,   *)
(* also after a Sell of more than is held.                                 *)
(***************************************************************************)
C1_HoldingNeverNegative == hist.currentHoldings >= 0

(***************************************************************************)
(* C2: after every event of the replay of getStockTransactionHistory,      *)
(* currentHoldings equals the sum of the quantities of the lots in         *)
(* buyQueue.                                                               *)
(***************************************************************************)
C2_HoldingEqualsLots == hist.currentHoldings = SumQty(hist.buyQueue)

(***************************************************************************)
(* C3: over the same stored records and as-of date, the currentHolding     *)
(* getHoldingsSummary returns for the security equals the held quantity    *)
(* after the last event of the replay of getStockTransactionHistory.       *)
(***************************************************************************)
C3_SummaryEqualsHistory ==
    (summ.transactions > 0 /\ hist.rows > 0)
        => sumResult(summ).currentHolding = hist.currentHoldings

(***************************************************************************)
(* C4: a Sell of quantity q replayed by getStockTransactionHistory when    *)
(* the queue holds h >= q shares leaves the queue without its q oldest     *)
(* shares, and its profitLoss is the sale value minus the cost of those    *)
(* q oldest shares.                                                        *)
(***************************************************************************)
C4_SellConsumesOldest ==
    (/\ LastTransaction
     /\ hist.rows = prev.hist.rows + 1
     /\ StatedCategory(last.tranType) = "Sell"
     /\ LastQty > 0
     /\ SumQty(prev.hist.buyQueue) >= LastQty)
        => /\ hist.buyQueue = WithoutOldest(prev.hist.buyQueue, LastQty)
           /\ hist.row.hasProfitLoss
           /\ hist.row.profitLoss =
                  RatSub(RatMul(Num(LastQty), StatedPrice(last)),
                         CostOfOldest(prev.hist.buyQueue, LastQty))

(***************************************************************************)
(* C5: in fifoProcess a Sell of quantity q > h, h the quantity in the      *)
(* queue, consumes exactly the h shares available and adds only their cost *)
(* to the cost consumed; the holding is then 0, and sellQty and sellValue  *)
(* grow by the full q and the full amount of the sale.                     *)
(***************************************************************************)
C5_OversellAbsorbed ==
    (LastFifoSell /\ LastQty > SumQty(prev.fifo.buyQueue))
        => /\ fifo.buyQueue = <<>>
           /\ fifo.sellCost = RatAdd(prev.fifo.sellCost, SumCost(prev.fifo.buyQueue))
           /\ fifoResult(fifo).holdingQty = 0
           /\ fifo.availableQty = 0
           /\ fifo.sellQty = prev.fifo.sellQty + LastQty
           /\ fifo.sellValue = prev.fifo.sellValue + Abs(last.netAmount)
           /\ fifo.buyQty = prev.fifo.buyQty
           /\ fifo.buyValue = prev.fifo.buyValue

\* an oversell of a queue that holds shares at a cost
C5_Witness ==
    /\ LastFifoSell
    /\ SumQty(prev.fifo.buyQueue) > 0
    /\ RatPos(SumCost(prev.fifo.buyQueue))
    /\ LastQty > SumQty(prev.fifo.buyQueue)
    /\ last.netAmount # 0

(***************************************************************************)
(* C6: an event whose type code is a dividend code or an unrecognized code *)
(* changes neither the lot queue nor the held quantity in any replay       *)
(* (fifoProcess, getHoldingsSummary, getStockTransactionHistory).          *)
(***************************************************************************)
C6_DividendOtherInert ==
    (LastTransaction /\ StatedCategory(last.tranType) \in {"Dividend", "Other"})
        => /\ fifo.buyQueue = prev.fifo.buyQueue
           /\ fifoResult(fifo).holdingQty = fifoResult(prev.fifo).holdingQty
           /\ summ.lotQueue = prev.summ.lotQueue
           /\ hist.buyQueue = prev.hist.buyQueue
           /\ hist.currentHoldings = prev.hist.currentHoldings

(***************************************************************************)
(* C7: a type code that is DIO or contains DIVIDEND is never applied as a  *)
(* Buy or as a Sell by getStockTransactionHistory,                         *)
(* exportClientTransactionsToExcel or getHoldingsSummary, even when it     *)
(* starts with B or S or contains BUY or SELL.                             *)
(***************************************************************************)
C7_DividendWins ==
    (LastTransaction /\ StatedCategory(last.tranType) = "Dividend")
        => /\ hist.buyQueue = prev.hist.buyQueue
           /\ hist.currentHoldings = prev.hist.currentHoldings
           /\ ~hist.row.hasProfitLoss
           /\ xport.buyQueue = prev.xport.buyQueue
           /\ xport.currentHoldings = prev.xport.currentHoldings
           /\ summ.lotQueue = prev.summ.lotQueue

\* SQB and OPI: a buy, and nothing on the sell side
C8_BuyCodes ==
    (LastTransaction /\ LastQty > 0 /\ LastType \in {S_SQB, S_OPI})
        => /\ fifo.buyQty = prev.fifo.buyQty + LastQty
           /\ fifo.sellQty = prev.fifo.sellQty
           /\ (LastWithinEndDate =>
                 /\ SumQty(summ.lotQueue) = SumQty(prev.summ.lotQueue) + LastQty
                 /\ hist.currentHoldings = prev.hist.currentHoldings + LastQty
                 /\ modal.totalBuyQty = prev.modal.totalBuyQty + LastQty
                 /\ modal.totalSellQty = prev.modal.totalSellQty)

\* SQS, OPO and NF-...: a sell, and nothing on the buy side
C8_SellCodes ==
    (LastTransaction /\ LastQty > 0
     /\ (LastType \in {S_SQS, S_OPO} \/ startsWith(LastType, S_NF)))
        => /\ fifo.sellQty = prev.fifo.sellQty + LastQty
           /\ fifo.buyQty = prev.fifo.buyQty
           /\ (LastWithinEndDate =>
                 /\ summ.lotQueue = WithoutOldest(prev.summ.lotQueue, LastQty)
                 /\ hist.currentHoldings = prev.hist.currentHoldings - LastQty
                 /\ modal.totalSellQty = prev.modal.totalSellQty + LastQty
                 /\ modal.totalBuyQty = prev.modal.totalBuyQty)

(***************************************************************************)
(* C8: SQB and OPI are counted as Buy, and SQS, OPO and NF-... as Sell,    *)
(* each on exactly one side, by fifoProcess, by the replay of              *)
(* getHoldingsSummary, by getStockTransactionHistory and by the buy/sell   *)
(* totals of StockDetailModal.                                             *)
(***************************************************************************)
C8_CodesOnOneSide == C8_BuyCodes /\ C8_SellCodes

\* a Buy of quantity > 0 appends the lot (quantity, resolved price)
C9_Buy ==
    (LastTransaction /\ LastQty > 0 /\ StatedCategory(last.tranType) = "Buy")
        => LET lot == Lot(LastQty, StatedPrice(last))
           IN  /\ xport.buyQueue = Append(prev.xport.buyQueue, lot)
               /\ xport.currentHoldings = prev.xport.currentHoldings + LastQty
               /\ (LastWithinEndDate =>
                     /\ hist.buyQueue = Append(prev.hist.buyQueue, lot)
                     /\ hist.currentHoldings = prev.hist.currentHoldings + LastQty
                     /\ summ.lotQueue = Append(prev.summ.lotQueue, lot))

\* a Bonus of quantity > 0 appends the lot (quantity, 0)
C9_Bonus ==
    (LastBonus /\ last.qty > 0)
        => LET lot == Lot(last.qty, Num(0))
           IN  /\ xport.buyQueue = Append(prev.xport.buyQueue, lot)
               /\ xport.currentHoldings = prev.xport.currentHoldings + last.qty
               /\ (LastWithinEndDate =>
                     /\ hist.buyQueue = Append(prev.hist.buyQueue, lot)
                     /\ hist.currentHoldings = prev.hist.currentHoldings + last.qty
                     /\ summ.lotQueue = Append(prev.summ.lotQueue, lot))

(***************************************************************************)
(* C9: every Buy and every Bonus of quantity > 0 appends exactly one lot   *)
(* to the back of the queue (unit cost the resolved price for a Buy, 0     *)
(* included; unit cost 0 for a Bonus) and increases the held quantity by   *)
(* its quantity, in getStockTransactionHistory, getHoldingsSummary and     *)
(* exportClientTransactionsToExcel.                                        *)
(***************************************************************************)
C9_BuyBonusAppendLot == C9_Buy /\ C9_Bonus

(***************************************************************************)
(* C10: with an as-of date, no event whose effective date is later than    *)
(* it, transaction or bonus, is processed by the replay or emitted, in     *)
(* getStockTransactionHistory and in getHoldingsSummary.                   *)
(***************************************************************************)
C10_NoEventAfterEndDate ==
    (endDate # NoDate /\ last.kind # "none" /\ last.date > endDate)
        => /\ hist = prev.hist
           /\ summ = prev.summ

(***************************************************************************)
(* C11: a transaction and a bonus of the same effective date are processed *)
(* transaction first, whatever the row id of the transaction, and          *)
(* transactions of the same date in ascending row id, in the merged        *)
(* sequences of getHoldingsSummary and of getStockTransactionHistory.      *)
(***************************************************************************)
C11_TransactionBeforeBonus ==
    order.phase = "replayed" =>
        /\ \A i, j \in 1..Len(order.combinedEvents) :
              LET a == order.combinedEvents[i]
                  b == order.combinedEvents[j]
              IN  (i < j /\ getTime(a.trandate) = getTime(b.trandate))
                      => /\ ~(a.isBonus /\ ~b.isBonus)
                         /\ (~a.isBonus /\ ~b.isBonus) => a.rowid <= b.rowid
        /\ \A i, j \in 1..Len(order.allEvents) :
              LET a == order.allEvents[i]
                  b == order.allEvents[j]
              IN  (i < j /\ getTime(a.date) = getTime(b.date))
                      => /\ ~(a.type = "bonus" /\ b.type = "transaction")
                         /\ (a.type = "transaction" /\ b.type = "transaction")
                                => a.rowid <= b.rowid

(***************************************************************************)
(* C15: for a fixed set of transaction and bonus records of one security,  *)
(* the holding, the cost basis and the profit that fifoProcess and the     *)
(* replay of getHoldingsSummary compute do not depend on the order in      *)
(* which the records are supplied, also when records lack date and row id. *)
(***************************************************************************)
C15_OrderIndependent ==
    order.phase = "replayed" =>
        /\ order.weightedAverageAgain = order.weightedAverage
        /\ order.summaryAgain = order.summary

(***************************************************************************)
(* C12: with no as-of date and the same stored records,                    *)
(* getWeightedAverageCost lists a security exactly when getHoldingsSummary *)
(* reports a positive currentHolding for it, with totalQuantity equal to   *)
(* currentHolding and weightedAverageCost equal to avgCost.                *)
(***************************************************************************)
C12_WeightedAverageEqualsSummary ==
    endDate = NoDate =>
        LET w == fifoResult(fifo)
            s == sumResult(summ)
        IN  /\ (w.holdingQty > 0) <=> (s.currentHolding > 0)
            /\ s.currentHolding > 0
                   => /\ w.holdingQty = s.currentHolding
                      /\ w.avgCost = s.avgCost

(***************************************************************************)
(* C13: the price resolved for a transaction is never negative and is the  *)
(* net rate if > 0, else the rate if > 0, else |net amount| / quantity     *)
(* when the quantity is not 0 and the amount is not 0, else 0; and         *)
(* getHoldingsSummary and getStockTransactionHistory resolve the same      *)
(* price for the same row, negative field values included.                 *)
(***************************************************************************)
C13_PriceChain ==
    pricing.phase = "resolved" =>
        /\ pricing.history = StatedPrice(pricing.row)
        /\ ~RatPos(RatSub(Num(0), pricing.history))
        /\ pricing.summaryResolves
               => /\ pricing.summary = StatedPrice(pricing.row)
                  /\ pricing.summary = pricing.history

(***************************************************************************)
(* C14: after every event of the replay of getStockTransactionHistory the  *)
(* averageCostOfHoldings of the emitted row is the cost basis of the open  *)
(* lots (held quantity x weighted average price), and 0 when nothing is    *)
(* held.                                                                   *)
(***************************************************************************)
C14_AverageCostIsCostBasis ==
    hist.rows > 0 =>
        hist.row.averageCostOfHoldings =
            IF hist.row.holdingsAfter > 0 THEN SumCost(hist.buyQueue) ELSE Num(0)

(***************************************************************************)
(* C16: when the sequence replayed by getStockTransactionHistory holds no  *)
(* Sell event, no emitted row carries a profitLoss and the cost basis of   *)
(* the open lots is the sum of quantity x price over the Buy events.       *)
(***************************************************************************)
C16_NoSellNoProfitLoss ==
    (seen.sells = 0 /\ hist.rows > 0)
        => /\ ~hist.row.hasProfitLoss
           /\ SumCost(hist.buyQueue) = seen.buyCost

(***************************************************************************)
(* C17: a bonus record is merged into the replay of a security only if its *)
(* company name equals the security name after normalization (case folded, *)
(* punctuation stripped, LIMITED -> LTD, INCORPORATED -> INC, CORPORATION  *)
(* -> CORP, PRIVATE -> PVT), and getStockTransactionHistory and            *)
(* getHoldingsSummary merge the same bonus records.                        *)
(***************************************************************************)
C17_BonusMatchedByNormalizedName ==
    names.phase = "matched" =>
        /\ names.historyMerges
               => sumNormalizeName(names.otherName) = sumNormalizeName(names.securityName)
        /\ names.summaryMerges
               => sumNormalizeName(names.otherName) = sumNormalizeName(names.securityName)
        /\ names.historyMerges = names.summaryMerges

(***************************************************************************)
(* C18: getHoldingsSummary puts two stored rows of a client in one ledger  *)
(* exactly when their security names are equal after normalization, so     *)
(* that 'X LIMITED' and 'X LTD' are replayed as one ledger.                *)
(***************************************************************************)
C18_GroupedByNormalizedName ==
    names.phase = "matched" =>
        (names.sameLedger
            <=> sumNormalizeName(names.otherName) = sumNormalizeName(names.securityName))

(***************************************************************************)
(* C19: getHoldingsSummary answers with a successful summary only when the *)
(* replay ran over the complete list of the client's transactions and      *)
(* bonus records: after a failed batch, or after the safety limit stopped  *)
(* the reads early, the response is not a success built from the part      *)
(* fetched.                                                                *)
(***************************************************************************)
C19_SummaryOnlyFromCompleteFetch ==
    (fetch.phase = "responded" /\ fetch.status = 200)
        => /\ fetch.allRows = fetch.stored
           /\ fetch.allBonusRows = fetch.storedBonus

(***************************************************************************)
(* C28: in fifoProcess, after every processed transaction the counter      *)
(* availableQty is the sum of the quantities of the lots in buyQueue; the  *)
(* holdingQty returned is buyQty less the quantity the sells matched, and  *)
(* buyValue is remainingCost plus the cost the sells consumed, so that     *)
(* profit = sellValue - (buyValue - remainingCost).                        *)
(***************************************************************************)
C28_FifoCountersConsistent ==
    /\ fifo.availableQty = SumQty(fifo.buyQueue)
    /\ fifoResult(fifo).holdingQty = fifo.buyQty - seen.matched
    /\ Num(fifo.buyValue) = RatAdd(fifoResult(fifo).remainingCost, fifo.sellCost)
    /\ fifoResult(fifo).profit =
           RatSub(Num(fifo.sellValue),
                  RatSub(Num(fifo.buyValue), fifoResult(fifo).remainingCost))

\* a sell has taken part of a lot bought at a cost, and shares remain
C28_Witness ==
    /\ LastFifoSell
    /\ seen.matched > 0
    /\ fifo.buyQueue # <<>>
    /\ RatPos(fifo.sellCost)
    /\ RatPos(fifoResult(fifo).remainingCost)

\* the last record is a row of the transaction table of StockDetailModal: a
\* bonus, or a fetched transaction that the filter of the table keeps
LastInModalTable ==
    \/ LastBonus /\ last.qty > 0
    \/ /\ LastTransaction
       /\ LastWithinEndDate
       /\ modalIsBuy(last.tranType) \/ modalIsSell(last.tranType)
       /\ ~isDividendType(LastType)

(***************************************************************************)
(* C27: in StockDetailModal, with transactions loaded, the Current Holding *)
(* card (total buy quantity less total sell quantity) equals the HOLDING   *)
(* of the last row of the transaction table (the sum of the lot queue      *)
(* after the last event).                                                  *)
(***************************************************************************)
C27_CardEqualsTableHolding ==
    LastInModalTable
        => modal.totalBuyQty - modal.totalSellQty = SumQty(modal.lotQueue)

\* HOLDING and WAP of the last row of the transaction table of StockDetailModal
modalHolding == SumQty(modal.lotQueue)

modalWAP ==
    IF modalHolding > 0 THEN RatDiv(SumCost(modal.lotQueue), Num(modalHolding)) ELSE Num(0)

(***************************************************************************)
(* C26: the currentHolding and avgCost getHoldingsSummary returns for a    *)
(* security equal the HOLDING and WAP of the last table row StockDetail-   *)
(* Modal computes from the rows getStockTransactionHistory returns for the *)
(* same client, security and as-of date.                                   *)
(***************************************************************************)
C26_SummaryEqualsModalTable ==
    LastInModalTable
        => /\ sumResult(summ).currentHolding = modalHolding
           /\ sumResult(summ).avgCost = modalWAP

(***************************************************************************)
(* C25: the cumulativeHolding getClientsWithCumulativeHoldings returns for *)
(* a client is the sum over the client's securities of the currentHolding  *)
(* getHoldingsSummary computes; here for a client with one security, for   *)
(* every order of its buys, sells and bonuses.                             *)
(***************************************************************************)
C25_CumulativeEqualsSummary ==
    (order.phase = "replayed" /\ order.transactions # <<>>)
        => order.cumulativeHolding = order.summary.currentHolding

(***************************************************************************)
(* C30: the comparator with which exportClientTransactionsToExcel merges   *)
(* transactions and bonuses is a consistent ordering: for no two events a  *)
(* and b does it put a before b and also b before a, so the transactions   *)
(* of one date keep the ascending row-id order of the transaction sort.    *)
(***************************************************************************)
C30_ExportComparatorConsistent ==
    order.phase = "merged" =>
        LET es == order.exportEvents
        IN  /\ \A i, j \in 1..Len(es) :
                   i # j => ~(/\ exportByDateType(es[i], es[j]) < 0
                              /\ exportByDateType(es[j], es[i]) < 0)
            /\ \A i, j \in 1..Len(es) :
                   (/\ i < j
                    /\ es[i].type = "transaction"
                    /\ es[j].type = "transaction"
                    /\ getTime(es[i].date) = getTime(es[j].date))
                       => es[i].rowid < es[j].rowid

(***************************************************************************)
(* C24: getHoldingsSummary emits no summary for a security whose name,     *)
(* trimmed and compared without regard to case, is CASH, TAX, TDS or TAX   *)
(* DEDUCTED AT SOURCE, and no row of such a security is added to a ledger  *)
(* group.                                                                  *)
(***************************************************************************)
C24_PseudoSecuritiesExcluded ==
    names.phase = "matched" =>
        /\ \A stockName \in names.result :
               toUpperCase(trim(stockName)) \notin excludedNames
        /\ \A stockName \in {names.securityName, names.otherName} :
               toUpperCase(trim(stockName)) \in excludedNames
                   => toUpperCase(trim(stockName)) \notin names.byStock

\* rows of 'cash' and of a real security: only the security is returned
C24_Witness ==
    /\ names.phase = "matched"
    /\ names.securityName = N_cash
    /\ names.otherName = N_AB_LTD
    /\ names.result = {N_AB_LTD}

(***************************************************************************)
(* C29: within one response of getHoldingsSummary a bonus record of the    *)
(* client adds its shares to the holding of at most one returned security. *)
(***************************************************************************)
C29_BonusInOneSecurity ==
    names.phase = "matched" => Cardinality(names.bonusGroups) <= 1

(***************************************************************************)
(* C23: a bonus record without ex-date is not rejected: it takes the       *)
(* sentinel date, comes before every dated event of the security, and its  *)
(* zero-cost lot is the oldest of the queue, the first the next Sell       *)
(* consumes, in getStockTransactionHistory and in getHoldingsSummary.      *)
(***************************************************************************)
C23_UndatedBonusOldestLot ==
    /\ (LastBonus /\ last.date = NoDate /\ last.qty > 0)
           => /\ clock = SentinelDate
              /\ prev.summ.transactions = 0
              /\ hist.buyQueue = Append(prev.hist.buyQueue, Lot(last.qty, Num(0)))
              /\ summ.lotQueue = Append(prev.summ.lotQueue, Lot(last.qty, Num(0)))
    /\ (/\ LastTransaction
        /\ LastWithinEndDate
        /\ StatedCategory(last.tranType) = "Sell"
        /\ LastQty > 0
        /\ seen.undated
        /\ prev.summ.transactions = 0)
           => /\ hist.buyQueue = WithoutOldest(prev.hist.buyQueue, LastQty)
              /\ summ.lotQueue = WithoutOldest(prev.summ.lotQueue, LastQty)

\* the quantity of an event of allEvents
EventQty(e) == IF e.type = "transaction" THEN e.data.qty ELSE e.data.bonusShare

(***************************************************************************)
(* C22: getStockTransactionHistory emits exactly one row for every fetched *)
(* transaction of the security, of any type and also of quantity 0, and    *)
(* for every matched bonus, in non-decreasing order of effective date; an  *)
(* event whose quantity is 0 changes neither the lot queue nor the held    *)
(* quantity.                                                               *)
(***************************************************************************)
C22_OneRowPerEvent ==
    order.phase = "history" =>
        LET ev == order.allEvents
            st == order.states
            before(i) == IF i = 1 THEN HistInit ELSE st[i - 1]
        IN  /\ Len(st) = Len(order.transactions) + Len(order.bonuses)
            /\ Len(ev) = Len(st)
            /\ \A k \in 1..Len(order.transactions) :
                   Cardinality({i \in 1..Len(ev) :
                       /\ ev[i].type = "transaction"
                       /\ ev[i].data = order.transactions[k]}) = 1
            /\ Cardinality({i \in 1..Len(ev) : ev[i].type = "bonus"}) = Len(order.bonuses)
            /\ \A i \in 1..Len(st) :
                   /\ st[i].rows = i
                   /\ st[i].row.kind = ev[i].type
                   /\ st[i].row.qty = EventQty(ev[i])
                   /\ EventQty(ev[i]) = 0
                         => /\ st[i].buyQueue = before(i).buyQueue
                            /\ st[i].currentHoldings = before(i).currentHoldings
            /\ \A i, j \in 1..Len(ev) :
                   i < j => getTime(ev[i].date) <= getTime(ev[j].date)

\* rows fetched out of date order, one a dividend and one of quantity 0
\* after a buy, and a bonus without shares
C22_Witness ==
    /\ order.phase = "history"
    /\ Len(order.transactions) = MaxRows
    /\ order.transactions[1].trandate > order.transactions[2].trandate
    /\ \E i \in 1..Len(order.allEvents) :
           /\ order.allEvents[i].type = "transaction"
           /\ order.allEvents[i].data.tranType = T_DIO
    /\ \E i \in 2..Len(order.allEvents) :
           /\ EventQty(order.allEvents[i]) = 0
           /\ order.states[i - 1].buyQueue # <<>>
    /\ order.bonuses # <<>>
    /\ order.bonuses[1].bonusShare = 0

====
